---- MODULE Spec2Model ----
(***************************************************************************)
(* Verification model of the arbitrage bot.                                *)
(*                                                                         *)
(*   SpecGate     notifications/alert_gate.rs   AlertGate + its mailbox    *)
(*   SpecTracker  models/orderbook.rs           MarketTracker + Comparator *)
(*   SpecWs       binance/ws_handler.rs         WsHandler supervisor       *)
(*   SpecClients  ws/binance_client.rs,         the order-book stream      *)
(*                ws/bybit_client_futures.rs    tasks of main.rs           *)
(*   SpecApi      binance/api.rs                send_signed_request        *)
(*   SpecExchange binance/binance_exchange.rs   place_order_future         *)
(*   SpecAuth     binance/auth.rs               augment_and_sign_params    *)
(*   SpecNotifier notifications/telegram.rs     TelegramNotifier worker    *)
(*   SpecPrices   binance/binance_exchange.rs   subscribe_prices           *)
(*   SpecLock     main.rs, the stream tasks     the tracker's Mutex        *)
(*   SpecEngine   ws/exchanges.rs               ArbitrageEngine            *)
(*                                                                         *)
(* Strings are sequences of code points, so that comparison, upper-casing  *)
(* and formatting are computed the way the code computes them.             *)
(* Floating-point percentages and prices are integers in a fixed unit.     *)
(***************************************************************************)
EXTENDS Integers, Sequences, FiniteSets, TLC

VARIABLES
    \* ---- AlertGate (alert_gate.rs) and the notification mailbox ----
    last_notified,      \* HashMap<String, f64>: a function on the keys present
    last_send_time,     \* Option<Instant>: <<>> is None, <<t>> is Some(t)
    mailbox,            \* the mpsc channel behind tx: queue of AppAlert
    rx_closed,          \* TRUE once the receiving half of the channel is gone
    now,                \* the monotonic clock read by Instant, in seconds
    gate_call,          \* history: what the last gate operation did
    accepted_since,     \* history: key -> the diffs accepted since the last reset, in order
    sent_since,         \* history: instants of the alerts accepted since the last reset, in order
    sent_all,           \* history: instants of every accepted alert
    \* ---- MarketTracker / Comparator (orderbook.rs) ----
    data,               \* HashMap<String, Vec<MarketSnapshot>>
    biggest_diff,       \* Comparator.biggest_diff
    results,            \* the Vec returned by the last Comparator::compare
    csv,                \* the lines CsvLogger::log has appended
    reported,           \* history: <<symbol, exchange>> -> <<bid, ask>> of its latest update
    tracker_call,       \* history: the arguments of the last MarketTracker::update
    \* ---- WsHandler (ws_handler.rs), times in milliseconds ----
    state,                      \* Arc<Mutex<ConnectionState>>
    shutdown,                   \* Arc<AtomicBool>
    disconnection_timestamps,   \* Arc<Mutex<Vec<Instant>>>
    last_heartbeat,             \* Arc<Mutex<Instant>>
    backoff_ms,                 \* local of connection_loop
    rotation_deadline,          \* local of connection_loop
    sleep_duration,             \* local of connection_loop: the backoff wait under way
    jitter,                     \* local of connection_loop: the jitter drawn for that wait
    ws_pc,                      \* where the spawned connection_loop task stands
    ws_now,                     \* tokio's Instant clock
    sender_queue,               \* the channel behind sender: items not yet received
    receiver_dropped,           \* TRUE once the consumer has dropped its receiver
    pending_send,               \* the item of a sender.send(..).await that is waiting for room
    failures,                   \* history: consecutive failed connect_async calls
    sessions,                   \* history: connect_async calls that returned Ok
    attempts,                   \* history: connect_async calls made
    checked,                    \* history: the ring and instant of the last breaker check
    last_wait,                  \* history: the last wait of connection_loop
    state_log,                  \* history: the changes <<from, to>> self.state has made
    connected_at,               \* history: the instant of the last successful connect
    frames,                     \* history: data frames read in the current session
    delivered,                  \* history: the items the consumer has received, in order
    last_frame,                 \* history: the instant of the last frame read (or of the connect)
    frame_parity,               \* history: parity of the number of frames the read loop under way has read
    \* ---- the stream tasks (binance_client.rs, bybit_client_futures.rs) ----
    binance_pc,                 \* where the run_orderbook_stream_binance task stands
    binance_fault,              \* history: the last fault that task met
    bybit_pc,                   \* where the run_orderbook_stream_bybit_futures task stands
    bybit_fault,                \* history: the last fault that task met
    \* ---- BinanceTradingClient::send_signed_request (api.rs) ----
    api_pc,                     \* where the caller of send_signed_request stands
    request_id,                 \* local request_id of the call under way
    api_result,                 \* what the last call returned: <<>> until it has
    api_inbound,                \* history: what ws_stream.next() gave the call, in order
    requests,                   \* history: calls of send_signed_request made
    api_method,                 \* the method of the operation under way
    op_result,                  \* what the last operation returned: <<>> until it has
    \* ---- BinanceExchange::place_order_future (binance_exchange.rs) ----
    lock_holder,                \* trading_client: the task holding the Mutex, or NoTask
    task_pc,                    \* where each task calling place_order_future stands
    unanswered,                 \* the requests the venue has received and not answered
    stream_closed,              \* TRUE once ws_stream has closed, failed or ended
    reads,                      \* history: <<id answered, request id of the call that read it>>
    \* ---- BinanceAuth (auth.rs) ----
    signings,                   \* history: the calls of augment_and_sign_params and what they returned
    \* ---- TelegramNotifier (telegram.rs) ----
    worker_pc,                  \* where the worker task stands
    in_post,                    \* the alert the worker has taken and not yet posted: <<>> or <<alert>>
    senders,                    \* the Sender handles of the channel that are alive
    posts,                      \* history: the posts attempted, in order, with their outcome
    enqueued,                   \* history: the alerts try_send has put into the channel, in order
    \* ---- BinanceExchange::subscribe_prices (binance_exchange.rs) ----
    prices_pc,                  \* where the subscribe_prices task stands
    price_rx,                   \* the price channel of ArbitrageEngine: PriceData queued
    price_rx_dropped,           \* TRUE once the receiving half is gone
    price_pending,              \* the PriceData tx.send is sending: <<>> or <<data>>
    wire,                       \* history: the frames read and the pongs written, in order
    \* ---- Arc<Mutex<MarketTracker>> (main.rs) and the tasks that lock it ----
    tracker_mutex,              \* the task holding the Mutex, <<>> when it is free
    lock_pc,                    \* where each task stands with respect to the Mutex
    io_log,                     \* history: for each line written to the CSV file, the holder of the Mutex then
    \* ---- ArbitrageEngine (exchanges.rs) ----
    exchanges,                  \* HashMap<ExchangeId, Arc<dyn Exchange>>: the ids present
    market_state,               \* HashMap<ExchangeId, PriceData>: a function on the ids present
    is_executing,               \* bool
    engine_pc,                  \* where the task running new() and run() stands
    feeds,                      \* the spawned subscribe_prices tasks still running
    in_flight,                  \* the place_order_future futures try_join! is polling
    trades,                     \* history: the calls of execute_trade, in order
    taken,                      \* history: the PriceData run() has received, in order
    fed                         \* history: number of PriceData the feeds have sent

gateVars == <<last_notified, last_send_time, mailbox, rx_closed, now, gate_call,
              accepted_since, sent_since, sent_all>>
trackerVars == <<data, biggest_diff, results, csv, reported, tracker_call>>
wsVars == <<state, shutdown, disconnection_timestamps, last_heartbeat, backoff_ms,
            rotation_deadline, sleep_duration, jitter, ws_pc, ws_now, sender_queue,
            receiver_dropped, pending_send, failures, sessions, attempts,
            checked, last_wait, state_log, connected_at, frames, delivered,
            last_frame, frame_parity>>
clientVars == <<binance_pc, binance_fault, bybit_pc, bybit_fault>>
apiVars == <<api_pc, request_id, api_result, api_inbound, requests, api_method,
             op_result>>
exchangeVars == <<lock_holder, task_pc, unanswered, stream_closed, reads>>
authVars == <<signings>>
notifierVars == <<worker_pc, in_post, senders, posts, enqueued>>
pricesVars == <<prices_pc, price_rx, price_rx_dropped, price_pending, wire>>
lockVars == <<tracker_mutex, lock_pc, io_log>>
engineVars == <<exchanges, market_state, is_executing, engine_pc, feeds, in_flight,
                trades, taken, fed>>
vars == <<gateVars, trackerVars, wsVars, clientVars, apiVars, exchangeVars, authVars,
          notifierVars, pricesVars, lockVars, engineVars>>
notNotifierVars ==
    <<trackerVars, wsVars, clientVars, apiVars, exchangeVars, authVars, pricesVars,
      lockVars, engineVars>>
notPricesVars ==
    <<gateVars, trackerVars, wsVars, clientVars, apiVars, exchangeVars, authVars,
      notifierVars, lockVars, engineVars>>
notGateVars ==
    <<trackerVars, wsVars, clientVars, apiVars, exchangeVars, authVars,
      notifierVars, pricesVars, lockVars, engineVars>>
notTrackerVars ==
    <<gateVars, wsVars, clientVars, apiVars, exchangeVars, authVars,
      notifierVars, pricesVars, lockVars, engineVars>>
notWsVars ==
    <<gateVars, trackerVars, clientVars, apiVars, exchangeVars, authVars,
      notifierVars, pricesVars, lockVars, engineVars>>
notClientVars ==
    <<gateVars, wsVars, apiVars, exchangeVars, authVars,
      notifierVars, pricesVars, lockVars, engineVars>>
notApiVars ==
    <<gateVars, trackerVars, wsVars, clientVars, authVars,
      notifierVars, pricesVars, lockVars, engineVars>>
notAuthVars ==
    <<gateVars, trackerVars, wsVars, clientVars, apiVars, exchangeVars,
      notifierVars, pricesVars, lockVars, engineVars>>
notLockVars ==
    <<wsVars, clientVars, apiVars, exchangeVars, authVars,
      notifierVars, pricesVars, engineVars>>
notEngineVars ==
    <<gateVars, trackerVars, wsVars, clientVars, apiVars, exchangeVars, authVars,
      notifierVars, prices_pc, price_rx_dropped, price_pending, wire, lockVars>>

(***************************************************************************)
(* Strings                                                                 *)
(***************************************************************************)
\* str <= str in Rust: lexicographic on the bytes.
RECURSIVE StrLe(_, _)
StrLe(s, t) ==
    IF s = <<>> THEN TRUE
    ELSE IF t = <<>> THEN FALSE
    ELSE IF Head(s) < Head(t) THEN TRUE
    ELSE IF Head(s) > Head(t) THEN FALSE
    ELSE StrLe(Tail(s), Tail(t))

\* char::to_uppercase on the ASCII range: a..z (97..122) become A..Z (65..90).
UpperChar(c) == IF c >= 97 /\ c <= 122 THEN c - 32 ELSE c

to_uppercase(s) == [i \in 1..Len(s) |-> UpperChar(s[i])]

\* constants.rs, exchange_names
BINANCE == <<98, 105, 110, 97, 110, 99, 101>>      \* "binance"
BYBIT == <<98, 121, 98, 105, 116>>                 \* "bybit"

\* constants.rs, pairs
BTC_USDT_BINANCE == <<98, 116, 99, 117, 115, 100, 116>>   \* "btcusdt"
BTC_USDT_BYBIT == <<66, 84, 67, 85, 83, 68, 84>>          \* "BTCUSDT"
ETH_USDT_BYBIT == <<69, 84, 72, 85, 83, 68, 84>>          \* "ETHUSDT"

Bar == <<124>>                                     \* "|"

(***************************************************************************)
(* AlertGate                                                               *)
(***************************************************************************)
\* constants.rs, notifications: percent, percentage points, seconds.
DIFF_THRESHOLD == 5
RE_ALERT_DELTA == 1
COOLDOWN_SECS == 120

\* Capacity of the channel. telegram.rs creates it with 100; the model runs a
\* scaled mailbox so that "full" is reached within the time bound.
MailboxCapacity == 2

\* Bounds of the gate's environment.
MaxTime == 120
TickSteps == {60, 120}
SymbolInputs == {BTC_USDT_BINANCE, ETH_USDT_BYBIT}
ExchangeInputs == {BINANCE, BYBIT}
DiffInputs == {4, 5, 6}
\* <<bid_a, ask_a, mid_a, bid_b, ask_b, mid_b>> carried into the alert unchanged.
PxInputs == {<<100, 100, 100, 94, 94, 94>>}

\* pair_key with the venue order kept as given (the normalisation left out).
pair_key_unordered(symbol, exchange_a, exchange_b) ==
    to_uppercase(symbol) \o Bar \o exchange_a \o Bar \o exchange_b

\* fn pair_key: "SYMBOL|min(a,b)|max(a,b)"
pair_key(symbol, exchange_a, exchange_b) ==
    LET a == IF StrLe(exchange_a, exchange_b) THEN exchange_a ELSE exchange_b
        b == IF StrLe(exchange_a, exchange_b) THEN exchange_b ELSE exchange_a
    IN  to_uppercase(symbol) \o Bar \o a \o Bar \o b

\* Guard 1: minimum diff.
MinDiffRejects(diff_percent) == diff_percent < DIFF_THRESHOLD

\* Guard 2 with the delta forgotten.
ReAlertRejects_noDelta(ln, key, diff_percent) ==
    key \in DOMAIN ln /\ diff_percent < ln[key]

\* Guard 2 with <= for <: a rise of exactly the delta is rejected.
ReAlertRejects_strict(ln, key, diff_percent) ==
    key \in DOMAIN ln /\ diff_percent <= ln[key] + RE_ALERT_DELTA

\* Guard 2: re-alert delta against the value last notified for the key.
ReAlertRejects(ln, key, diff_percent) ==
    key \in DOMAIN ln /\ diff_percent < ln[key] + RE_ALERT_DELTA

\* Guard 3 with the comparison turned round.
CooldownRejects_inverted(lst, t) ==
    lst # <<>> /\ (t - lst[1]) > COOLDOWN_SECS

\* Guard 3: global cooldown; last.elapsed() is t - last.
CooldownRejects(lst, t) ==
    lst # <<>> /\ (t - lst[1]) < COOLDOWN_SECS

\* A channel without a capacity: try_send never answers Full.
try_send_unbounded(mb, closed) == IF closed THEN "closed" ELSE "sent"

\* tx.try_send: Ok, Full or Closed, from the state of the channel.
try_send(mb, closed) ==
    IF closed THEN "closed"
    ELSE IF Len(mb) >= MailboxCapacity THEN "full"
    ELSE "sent"

\* The match on try_send with the state update done whatever the result.
OnTrySend_always(ln, lst, key, diff_percent, t, sent) ==
    [last_notified |-> [k \in DOMAIN ln \cup {key} |->
                            IF k = key THEN diff_percent ELSE ln[k]],
     last_send_time |-> <<t>>]

\* The match on try_send with the instant of the send left out.
OnTrySend_no_instant(ln, lst, key, diff_percent, t, sent) ==
    IF sent = "sent"
    THEN [last_notified |-> [k \in DOMAIN ln \cup {key} |->
                                 IF k = key THEN diff_percent ELSE ln[k]],
          last_send_time |-> lst]
    ELSE [last_notified |-> ln, last_send_time |-> lst]

\* The match on try_send: only Ok(_) records the alert.
OnTrySend(ln, lst, key, diff_percent, t, sent) ==
    IF sent = "sent"
    THEN [last_notified |-> [k \in DOMAIN ln \cup {key} |->
                                 IF k = key THEN diff_percent ELSE ln[k]],
          last_send_time |-> <<t>>]
    ELSE [last_notified |-> ln, last_send_time |-> lst]

AppAlert(symbol, exchange_a, exchange_b, px, diff_percent) ==
    [symbol |-> symbol, exchange_a |-> exchange_a, exchange_b |-> exchange_b,
     bid_a |-> px[1], ask_a |-> px[2], mid_a |-> px[3],
     bid_b |-> px[4], ask_b |-> px[5], mid_b |-> px[6],
     diff_percent |-> diff_percent]

\* maybe_send with guard 3 tested before guard 2.
MaybeSendResult_cooldown_first(ln, lst, mb, closed, t, symbol, exchange_a, exchange_b, px, diff_percent) ==
    LET key == pair_key(symbol, exchange_a, exchange_b)
        same(o) == [outcome |-> o, key |-> key, last_notified |-> ln,
                    last_send_time |-> lst, mailbox |-> mb]
    IN  IF MinDiffRejects(diff_percent) THEN same("min_diff")
        ELSE IF CooldownRejects(lst, t) THEN same("cooldown")
        ELSE IF ReAlertRejects(ln, key, diff_percent) THEN same("re_alert")
        ELSE LET sent == try_send(mb, closed)
                 g == OnTrySend(ln, lst, key, diff_percent, t, sent)
             IN  [outcome |-> sent, key |-> key,
                  last_notified |-> g.last_notified,
                  last_send_time |-> g.last_send_time,
                  mailbox |-> IF sent = "sent"
                              THEN Append(mb, AppAlert(symbol, exchange_a, exchange_b,
                                                       px, diff_percent))
                              ELSE mb]

\* AlertGate::maybe_send as a function of the gate, the channel and the clock:
\* the outcome, the gate fields and the channel afterwards.
MaybeSendResult(ln, lst, mb, closed, t, symbol, exchange_a, exchange_b, px, diff_percent) ==
    LET key == pair_key(symbol, exchange_a, exchange_b)
        same(o) == [outcome |-> o, key |-> key, last_notified |-> ln,
                    last_send_time |-> lst, mailbox |-> mb]
    IN  IF MinDiffRejects(diff_percent) THEN same("min_diff")
        ELSE IF ReAlertRejects(ln, key, diff_percent) THEN same("re_alert")
        ELSE IF CooldownRejects(lst, t) THEN same("cooldown")
        ELSE LET sent == try_send(mb, closed)
                 g == OnTrySend(ln, lst, key, diff_percent, t, sent)
             IN  [outcome |-> sent, key |-> key,
                  last_notified |-> g.last_notified,
                  last_send_time |-> g.last_send_time,
                  mailbox |-> IF sent = "sent"
                              THEN Append(mb, AppAlert(symbol, exchange_a, exchange_b,
                                                       px, diff_percent))
                              ELSE mb]

NoCall == [op |-> "none"]

maybe_send(symbol, exchange_a, exchange_b, px, diff_percent) ==
    LET r == MaybeSendResult(last_notified, last_send_time, mailbox, rx_closed, now,
                             symbol, exchange_a, exchange_b, px, diff_percent)
        ok == r.outcome = "sent"
    IN  /\ last_notified' = r.last_notified
        /\ last_send_time' = r.last_send_time
        /\ mailbox' = r.mailbox
        /\ gate_call' = [op |-> "maybe_send", key |-> r.key, diff |-> diff_percent,
                         outcome |-> r.outcome]
        /\ accepted_since' =
               IF ok
               THEN [k \in DOMAIN accepted_since \cup {r.key} |->
                        IF k = r.key
                        THEN Append(IF k \in DOMAIN accepted_since
                                    THEN accepted_since[k] ELSE <<>>, diff_percent)
                        ELSE accepted_since[k]]
               ELSE accepted_since
        /\ sent_since' = IF ok THEN Append(sent_since, now) ELSE sent_since
        /\ sent_all' = IF ok THEN sent_all \cup {now} ELSE sent_all
        /\ UNCHANGED <<rx_closed, now>>
        /\ UNCHANGED notGateVars

\* A reset that clears the map and keeps the time of the last send.
reset_keeps_last_send ==
    /\ last_notified' = <<>>
    /\ last_send_time' = last_send_time
    /\ gate_call' = [op |-> "reset"]
    /\ accepted_since' = <<>>
    /\ sent_since' = <<>>
    /\ UNCHANGED <<mailbox, rx_closed, now, sent_all>>
    /\ UNCHANGED notGateVars

\* AlertGate::reset, as far as the gate goes.
reset_in ==
    /\ last_notified' = <<>>
    /\ last_send_time' = <<>>
    /\ gate_call' = [op |-> "reset"]
    /\ accepted_since' = <<>>
    /\ sent_since' = <<>>
    /\ UNCHANGED <<mailbox, rx_closed, now, sent_all>>

\* AlertGate::reset called on its own.
reset ==
    /\ reset_in
    /\ UNCHANGED notGateVars

\* The worker's rx.recv(): takes the oldest alert off the channel.
worker_recv ==
    /\ ~rx_closed
    /\ mailbox # <<>>
    /\ mailbox' = Tail(mailbox)
    /\ UNCHANGED <<last_notified, last_send_time, rx_closed, now, gate_call,
                   accepted_since, sent_since, sent_all>>
    /\ UNCHANGED notGateVars

\* The receiving half goes away (the worker task ends): what is queued is lost.
rx_drop ==
    /\ ~rx_closed
    /\ rx_closed' = TRUE
    /\ mailbox' = <<>>
    /\ UNCHANGED <<last_notified, last_send_time, now, gate_call,
                   accepted_since, sent_since, sent_all>>
    /\ UNCHANGED notGateVars

\* Time passes.
Tick ==
    /\ \E dt \in TickSteps :
          /\ now + dt <= MaxTime
          /\ now' = now + dt
    /\ UNCHANGED <<last_notified, last_send_time, mailbox, rx_closed, gate_call,
                   accepted_since, sent_since, sent_all>>
    /\ UNCHANGED notGateVars

(***************************************************************************)
(* TelegramNotifier: the worker task TelegramNotifier::spawn starts, and   *)
(* the Sender handles of its channel.                                      *)
(*   worker_pc: recv -> post -> recv ... -> stopped                        *)
(***************************************************************************)
\* Bounds of the worker's environment: alerts offered to the channel, and
\* Sender handles alive at once.
MaxAlerts == 3
MaxSenders == 2
AlertInputs ==
    {AppAlert(BTC_USDT_BINANCE, BINANCE, BYBIT, px, d) : px \in PxInputs, d \in {5, 6}}
\* match self.client.post(&url).json(&payload).send().await
PostOutcomes == {"success", "api_error", "network_error"}

gateFields == <<last_notified, last_send_time, now, gate_call, accepted_since,
                sent_since, sent_all>>

\* A Sender is cloned.
sender_clone ==
    /\ senders > 0
    /\ senders < MaxSenders
    /\ senders' = senders + 1
    /\ UNCHANGED <<mailbox, rx_closed, worker_pc, in_post, posts, enqueued>>
    /\ UNCHANGED <<gateFields, notNotifierVars>>

\* A Sender is dropped.
sender_drop ==
    /\ senders > 0
    /\ senders' = senders - 1
    /\ UNCHANGED <<mailbox, rx_closed, worker_pc, in_post, posts, enqueued>>
    /\ UNCHANGED <<gateFields, notNotifierVars>>

\* tx.try_send(alert) on a Sender that is alive.
tx_try_send(alert) ==
    /\ senders > 0
    /\ Len(enqueued) < MaxAlerts
    /\ IF try_send(mailbox, rx_closed) = "sent"
       THEN mailbox' = Append(mailbox, alert) /\ enqueued' = Append(enqueued, alert)
       ELSE UNCHANGED <<mailbox, enqueued>>
    /\ UNCHANGED <<rx_closed, worker_pc, in_post, posts, senders>>
    /\ UNCHANGED <<gateFields, notNotifierVars>>

\* rx.recv().await gives Some(alert): the oldest alert of the channel.
rx_recv ==
    /\ worker_pc = "recv"
    /\ mailbox # <<>>
    /\ in_post' = <<Head(mailbox)>>
    /\ mailbox' = Tail(mailbox)
    /\ worker_pc' = "post"
    /\ UNCHANGED <<rx_closed, posts, enqueued, senders>>
    /\ UNCHANGED <<gateFields, notNotifierVars>>

\* A worker that puts the alert of a failed post back at the head of the
\* channel.
send_message_retry(outcome) ==
    /\ worker_pc = "post"
    /\ posts' = Append(posts, [alert |-> in_post[1], outcome |-> outcome])
    /\ in_post' = <<>>
    /\ worker_pc' = "recv"
    /\ mailbox' = IF outcome = "success" THEN mailbox ELSE <<in_post[1]>> \o mailbox
    /\ UNCHANGED <<rx_closed, enqueued, senders>>
    /\ UNCHANGED <<gateFields, notNotifierVars>>

\* notifier.send_message(&alert).await: one post; its outcome is logged and
\* the loop goes back to rx.recv().
send_message(outcome) ==
    /\ worker_pc = "post"
    /\ posts' = Append(posts, [alert |-> in_post[1], outcome |-> outcome])
    /\ in_post' = <<>>
    /\ worker_pc' = "recv"
    /\ UNCHANGED <<mailbox, rx_closed, enqueued, senders>>
    /\ UNCHANGED <<gateFields, notNotifierVars>>

\* rx.recv().await gives None: the channel is empty and no Sender is left.
\* The while let ends and the task with it, dropping rx.
rx_recv_none ==
    /\ worker_pc = "recv"
    /\ mailbox = <<>>
    /\ senders = 0
    /\ worker_pc' = "stopped"
    /\ rx_closed' = TRUE
    /\ UNCHANGED <<mailbox, in_post, posts, enqueued, senders>>
    /\ UNCHANGED <<gateFields, notNotifierVars>>

(***************************************************************************)
(* MarketTracker and Comparator                                            *)
(*                                                                         *)
(* Prices are integers in half ticks; the quotes fed in are whole ticks,   *)
(* so that mid = (bid + ask) / 2 is exact.  A diff is the f64 ratio in     *)
(* units of 1/DiffScale, which is the grid the code rounds it to.          *)
(***************************************************************************)
\* orderbook.rs:135 rounds the ratio to 1/100000.
DiffScale == 100000
\* The f64 results of a division by a zero mid: +inf (x/0, x > 0) and NaN (0/0).
\* NaN is below every number here, so every comparison with it is false.
DiffInf == 1000000000
DiffNaN == -1

\* main.rs:61 builds the tracker with DIFF_THRESHOLD / 100.0.
threshold == (DIFF_THRESHOLD * DiffScale) \div 100

\* Bounds of the tracker's environment.
MaxUpdates == 3
TrackerSymbols == {BTC_USDT_BYBIT, ETH_USDT_BYBIT}
QuoteInputs == {<<0, 0>>, <<200, 200>>, <<188, 188>>, <<192, 200>>}
MarketTypes == {"Spot", "Futures"}

Abs(x) == IF x < 0 THEN -x ELSE x

\* f64::round of n/d for n >= 0, d > 0: to nearest, halves away from zero.
RoundDiv(n, d) == (2 * n + d) \div (2 * d)

\* MarketSnapshot::new
MarketSnapshot(exchange, symbol, bid, ask, market_type) ==
    [exchange |-> exchange, symbol |-> symbol, bid |-> bid, ask |-> ask,
     mid |-> (bid + ask) \div 2, timestamp |-> now]

\* ((a.mid - b.ask).abs() / a.mid * 100000.0).round() / 100000.0
Diff(a, b) ==
    IF a.mid = 0
    THEN (IF b.ask = 0 THEN DiffNaN ELSE DiffInf)
    ELSE RoundDiv(Abs(a.mid - b.ask) * DiffScale, a.mid)

\* The emission test with the threshold left out.
Emits_noThreshold(diff, big) == diff > big

\* if diff > self.biggest_diff && diff >= self.threshold
Emits(diff, big) == diff > big /\ diff >= threshold

\* The index pairs of the two nested loops, in the order they are visited.
RECURSIVE PairsFrom(_, _, _)
PairsFrom(i, j, n) ==
    IF i > n THEN <<>>
    ELSE IF j > n THEN PairsFrom(i + 1, i + 2, n)
    ELSE <<<<i, j>>>> \o PairsFrom(i, j + 1, n)

\* The loop body over the pairs from position k on, with the watermark and
\* the result vector so far.
RECURSIVE CompareLoop(_, _, _, _, _)
CompareLoop(snapshots, pairs, k, big, res) ==
    IF k > Len(pairs) THEN [biggest_diff |-> big, results |-> res]
    ELSE LET a == snapshots[pairs[k][1]]
             b == snapshots[pairs[k][2]]
             diff == Diff(a, b)
         IN  IF a.exchange = b.exchange
             THEN CompareLoop(snapshots, pairs, k + 1, big, res)
             ELSE IF Emits(diff, big)
             THEN CompareLoop(snapshots, pairs, k + 1, diff, Append(res, <<a, b, diff>>))
             ELSE CompareLoop(snapshots, pairs, k + 1, big, res)

\* Comparator::compare: the new watermark and the returned vector.
compare(snapshots, big) ==
    CompareLoop(snapshots, PairsFrom(1, 2, Len(snapshots)), 1, big, <<>>)

RECURSIVE SumLen(_, _)
SumLen(f, S) ==
    IF S = {} THEN 0
    ELSE LET x == CHOOSE y \in S : TRUE IN Len(f[x]) + SumLen(f, S \ {x})

\* The number of snapshots the tracker holds.
TotalSnapshots == SumLen(data, DOMAIN data)

\* MarketTracker::update, as far as the tracker goes.
update_in(exchange, symbol, bid, ask, market_type) ==
    LET snapshot == MarketSnapshot(exchange, symbol, bid, ask, market_type)
        old == IF symbol \in DOMAIN data THEN data[symbol] ELSE <<>>
        entry == Append(old, snapshot)
        c == compare(entry, biggest_diff)
    IN  /\ TotalSnapshots < MaxUpdates
        /\ data' = [s \in DOMAIN data \cup {symbol} |->
                        IF s = symbol THEN entry ELSE data[s]]
        /\ biggest_diff' = c.biggest_diff
        /\ results' = c.results
        /\ csv' = csv \o c.results
        /\ reported' = [k \in DOMAIN reported \cup {<<symbol, exchange>>} |->
                            IF k = <<symbol, exchange>> THEN <<bid, ask>> ELSE reported[k]]
        /\ tracker_call' = [op |-> "update", exchange |-> exchange, symbol |-> symbol,
                            bid |-> bid, ask |-> ask, big |-> biggest_diff]

\* MarketTracker::update called on its own.
update(exchange, symbol, bid, ask, market_type) ==
    /\ update_in(exchange, symbol, bid, ask, market_type)
    /\ UNCHANGED notTrackerVars

(***************************************************************************)
(* WsHandler: the session supervisor (connection_loop) and the read loop   *)
(* (handle_stream).  ws_pc follows the spawned task:                       *)
(*   idle -> top -> [breaker_sleep ->] connecting -> stream                *)
(*        -> [send_blocked ->] after -> backoff_sleep -> top ... -> done   *)
(***************************************************************************)
\* ws_handler.rs:11-16, durations in ms.
BASE_BACKOFF_MS == 1000
MAX_BACKOFF_MS == 60000
CONNECTION_ROTATION_DURATION == 82800000
HEARTBEAT_TIMEOUT == 60000
MAX_DISCONNECTIONS_WINDOW == 300000
MAX_DISCONNECTIONS_LIMIT == 10
\* time::sleep(Duration::from_secs(5)) of handle_stream.
HEARTBEAT_CHECK == 5000

\* Bounds of the supervisor's environment.
\* Connection attempts; successful connects; the instant up to which the
\* server is up (accepts a connection, delivers a frame, lets the 5 s timer
\* of a quiet session fire): after it, connects fail and sessions only end.
MaxAttempts == 11
MaxSessions == 1
MaxWsTime == 5000
ChannelCapacity == 2
\* rand::thread_rng().gen_range(0..500): the two ends of the range.
JitterInputs == {0, 499}
\* How long after the start of a read a frame arrives (before the 5 s timer).
FrameDelays == {0}
\* How long a send that finds the channel full waits for the consumer.
SendWaits == {0, 61000}
MessageKinds == {"Text", "Binary", "Ping", "Pong", "Close"}
ControlKinds == {"Ping", "Pong", "Close"}

Min(a, b) == IF a <= b THEN a ELSE b

\* A retain that drops nothing.
retain_keeps_all(timestamps, t) == timestamps

\* timestamps.retain(|t| t.elapsed() < MAX_DISCONNECTIONS_WINDOW)
retain(timestamps, t) ==
    SelectSeq(timestamps, LAMBDA x : t - x < MAX_DISCONNECTIONS_WINDOW)

\* record_disconnection
record_disconnection(timestamps, t) == retain(Append(timestamps, t), t)

\* check_circuit_breaker, on the retained ring: timestamps.len() >= LIMIT
breaker_trips(timestamps) == Len(timestamps) >= MAX_DISCONNECTIONS_LIMIT

\* The doubling with the cap left out.
next_backoff_uncapped(b) == b * 2

\* backoff_ms = min(backoff_ms * 2, MAX_BACKOFF_MS)
next_backoff(b) == Min(b * 2, MAX_BACKOFF_MS)

NoWait == [kind |-> "none", ms |-> 0]

\* The environment a specification runs the supervisor in: how many
\* connection attempts and successful connects it sees, up to which instant
\* the server is up, and how many data frames a session delivers.
\* SpecWs follows the supervisor through long runs of failures; its sessions
\* carry control frames only.
WsBounds ==
    [attempts |-> MaxAttempts, sessions |-> MaxSessions, time |-> MaxWsTime,
     frames |-> 0]

\* A write of `to` into self.state that held `from`, added to the log of changes.
Logged(log, from, to) == IF from = to THEN log ELSE log \cup {<<from, to>>}

\* *self.last_heartbeat.lock().await = Instant::now() on Some(Ok(msg)), whatever msg is.
heartbeat_on(kind, last, t) == t

\* The timeout test with >= for >.
heartbeat_missed_at(last, t) == t - last >= HEARTBEAT_TIMEOUT

\* last.elapsed() > HEARTBEAT_TIMEOUT
heartbeat_missed(last, t) == t - last > HEARTBEAT_TIMEOUT

\* WsHandler::start: spawns connection_loop, which sets up its locals.
start ==
    /\ ws_pc = "idle"
    /\ backoff_ms' = BASE_BACKOFF_MS
    /\ rotation_deadline' = ws_now + CONNECTION_ROTATION_DURATION
    /\ ws_pc' = "top"
    /\ UNCHANGED <<state, shutdown, disconnection_timestamps, last_heartbeat,
                   sleep_duration, jitter, ws_now, sender_queue, receiver_dropped,
                   pending_send, failures, sessions, attempts, checked, last_wait,
                   state_log, connected_at, frames, delivered, last_frame,
                   frame_parity>>
    /\ UNCHANGED notWsVars

\* WsHandler::shutdown
shutdown_call ==
    /\ ~shutdown
    /\ shutdown' = TRUE
    /\ UNCHANGED <<state, disconnection_timestamps, last_heartbeat, backoff_ms,
                   rotation_deadline, sleep_duration, jitter, ws_pc, ws_now, sender_queue,
                   receiver_dropped, pending_send, failures, sessions, attempts,
                   checked, last_wait, state_log, connected_at, frames,
                   delivered, last_frame,
                   frame_parity>>
    /\ UNCHANGED notWsVars

\* Steps 2 and 3 of the loop body at instant t, up to the await on
\* connect_async: the rotation check (state = Rotating, new deadline) and
\* state = Connecting.
BeginConnect(t) ==
    LET rotate == t >= rotation_deadline
        via == IF rotate THEN "Rotating" ELSE state
    IN  /\ rotation_deadline' = IF rotate
                                THEN t + CONNECTION_ROTATION_DURATION
                                ELSE rotation_deadline
        /\ state' = "Connecting"
        /\ state_log' = Logged(Logged(state_log, state, via), via, "Connecting")
        /\ attempts' = attempts + 1
        /\ ws_pc' = "connecting"

\* The while condition and step 1: leave the loop on shutdown, else check the
\* breaker and either start the 300 s sleep or go on to connect.
loop_top_in(B) ==
    /\ ws_pc = "top"
    /\ IF shutdown
       THEN /\ state' = "Disconnected"
            /\ state_log' = Logged(state_log, state, "Disconnected")
            /\ ws_pc' = "done"
            /\ UNCHANGED <<disconnection_timestamps, rotation_deadline, attempts,
                           checked>>
       ELSE /\ attempts < B.attempts
            /\ disconnection_timestamps' = retain(disconnection_timestamps, ws_now)
            /\ checked' = [ring |-> disconnection_timestamps, at |-> ws_now]
            /\ IF breaker_trips(disconnection_timestamps')
               THEN /\ ws_pc' = "breaker_sleep"
                    /\ UNCHANGED <<state, rotation_deadline, attempts, state_log>>
               ELSE BeginConnect(ws_now)
    /\ UNCHANGED <<shutdown, last_heartbeat, backoff_ms, sleep_duration, jitter, ws_now,
                   sender_queue, receiver_dropped, pending_send, failures,
                   sessions, last_wait, connected_at, frames, delivered,
                   last_frame,
                   frame_parity>>
    /\ UNCHANGED notWsVars

loop_top == loop_top_in(WsBounds)

\* time::sleep(MAX_DISCONNECTIONS_WINDOW) is over: clear the ring, go on to connect.
breaker_wake ==
    /\ ws_pc = "breaker_sleep"
    /\ ws_now' = ws_now + MAX_DISCONNECTIONS_WINDOW
    /\ disconnection_timestamps' = <<>>
    /\ last_wait' = [kind |-> "breaker", ms |-> MAX_DISCONNECTIONS_WINDOW]
    /\ BeginConnect(ws_now')
    /\ UNCHANGED <<shutdown, last_heartbeat, backoff_ms, sleep_duration, jitter,
                   sender_queue, receiver_dropped, pending_send, failures,
                   sessions, checked, connected_at, frames, delivered,
                   last_frame,
                   frame_parity>>
    /\ UNCHANGED notWsVars

\* A successful connect that leaves the backoff as the failures made it.
connect_ok_keeps_backoff(B) ==
    /\ ws_pc = "connecting"
    /\ sessions < B.sessions
    /\ ws_now <= B.time
    /\ state' = "Connected"
    /\ state_log' = Logged(state_log, state, "Connected")
    /\ backoff_ms' = backoff_ms
    /\ last_heartbeat' = ws_now
    /\ failures' = 0
    /\ sessions' = sessions + 1
    /\ connected_at' = ws_now
    /\ last_frame' = ws_now
    /\ frames' = 0
    /\ ws_pc' = "stream"
    /\ UNCHANGED <<shutdown, disconnection_timestamps, rotation_deadline, sleep_duration,
                   jitter, ws_now, sender_queue, receiver_dropped, pending_send,
                   attempts, checked, last_wait, delivered,
                   frame_parity>>
    /\ UNCHANGED notWsVars

\* connect_async returns Ok: Connected, backoff reset, heartbeat stamped, and
\* handle_stream starts reading.
connect_ok_in(B) ==
    /\ ws_pc = "connecting"
    /\ sessions < B.sessions
    /\ ws_now <= B.time
    /\ state' = "Connected"
    /\ state_log' = Logged(state_log, state, "Connected")
    /\ backoff_ms' = BASE_BACKOFF_MS
    /\ last_heartbeat' = ws_now
    /\ failures' = 0
    /\ sessions' = sessions + 1
    /\ connected_at' = ws_now
    /\ last_frame' = ws_now
    /\ frames' = 0
    /\ ws_pc' = "stream"
    /\ UNCHANGED <<shutdown, disconnection_timestamps, rotation_deadline, sleep_duration,
                   jitter, ws_now, sender_queue, receiver_dropped, pending_send,
                   attempts, checked, last_wait, delivered,
                   frame_parity>>
    /\ UNCHANGED notWsVars

connect_ok == connect_ok_in(WsBounds)

\* connect_async returns Err: only logged.
connect_err ==
    /\ ws_pc = "connecting"
    /\ failures' = failures + 1
    /\ ws_pc' = "after"
    /\ UNCHANGED <<state, shutdown, disconnection_timestamps, last_heartbeat, backoff_ms,
                   rotation_deadline, sleep_duration, jitter, ws_now, sender_queue,
                   receiver_dropped, pending_send, sessions, attempts, checked,
                   last_wait, state_log, connected_at, frames, delivered,
                   last_frame,
                   frame_parity>>
    /\ UNCHANGED notWsVars

\* A channel that hands out the newest item first.
Send_lifo(item, go, stop) ==
    IF receiver_dropped
    THEN /\ ws_pc' = stop
         /\ UNCHANGED <<sender_queue, pending_send>>
    ELSE IF Len(sender_queue) < ChannelCapacity
    THEN /\ sender_queue' = <<item>> \o sender_queue
         /\ ws_pc' = go
         /\ UNCHANGED pending_send
    ELSE /\ pending_send' = <<item>>
         /\ ws_pc' = "send_blocked"
         /\ UNCHANGED sender_queue

\* self.sender.send(item).await from handle_stream: Err when the receiver is
\* gone, else enqueue, or wait for room.  `go` is where the loop stands after
\* a send that returned Ok, `stop` after one that returned Err.
Send(item, go, stop) ==
    IF receiver_dropped
    THEN /\ ws_pc' = stop
         /\ UNCHANGED <<sender_queue, pending_send>>
    ELSE IF Len(sender_queue) < ChannelCapacity
    THEN /\ sender_queue' = Append(sender_queue, item)
         /\ ws_pc' = go
         /\ UNCHANGED pending_send
    ELSE /\ pending_send' = <<item>>
         /\ ws_pc' = "send_blocked"
         /\ UNCHANGED sender_queue

\* select!: read.next() yields Some(Ok(msg)) before the heartbeat timer.
\* A data frame carries its arrival number within the session.
stream_msg_in(kind, dt, B) ==
    /\ ws_pc = "stream"
    /\ ws_now + dt <= B.time
    /\ kind \in {"Text", "Binary"} => frames < B.frames
    /\ ws_now' = ws_now + dt
    /\ last_heartbeat' = heartbeat_on(kind, last_heartbeat, ws_now')
    /\ last_frame' = ws_now'
    /\ frame_parity' = 1 - frame_parity
    /\ IF kind \in {"Text", "Binary"}
       THEN /\ frames' = frames + 1
            /\ Send([ok |-> TRUE, msg |-> kind, id |-> frames', session |-> sessions],
                    "stream", "after")
       ELSE /\ ws_pc' = IF kind = "Close" THEN "after" ELSE "stream"
            /\ UNCHANGED <<sender_queue, pending_send, frames>>
    /\ UNCHANGED <<state, shutdown, disconnection_timestamps, backoff_ms,
                   rotation_deadline, sleep_duration, jitter, receiver_dropped, failures,
                   sessions, attempts, checked, last_wait, state_log, connected_at,
                   delivered>>
    /\ UNCHANGED notWsVars

stream_msg(kind, dt) == stream_msg_in(kind, dt, WsBounds)

\* select!: read.next() yields Some(Err(e)): the error is sent on and the loop left.
stream_err ==
    /\ ws_pc = "stream"
    /\ Send([ok |-> FALSE, msg |-> "error", id |-> 0, session |-> sessions],
            "after", "after")
    /\ UNCHANGED <<state, shutdown, disconnection_timestamps, last_heartbeat, backoff_ms,
                   rotation_deadline, sleep_duration, jitter, ws_now, receiver_dropped,
                   failures, sessions, attempts, checked, last_wait, state_log,
                   connected_at, frames, delivered, last_frame,
                   frame_parity>>
    /\ UNCHANGED notWsVars

\* select!: read.next() yields None.
stream_end ==
    /\ ws_pc = "stream"
    /\ ws_pc' = "after"
    /\ UNCHANGED <<state, shutdown, disconnection_timestamps, last_heartbeat, backoff_ms,
                   rotation_deadline, sleep_duration, jitter, ws_now, sender_queue,
                   receiver_dropped, pending_send, failures, sessions, attempts,
                   checked, last_wait, state_log, connected_at, frames, delivered,
                   last_frame,
                   frame_parity>>
    /\ UNCHANGED notWsVars

\* select!: the 5 s timer fires first: heartbeat, then shutdown.
heartbeat_check_in(B) ==
    /\ ws_pc = "stream"
    /\ ws_now + HEARTBEAT_CHECK <= B.time
    /\ ws_now' = ws_now + HEARTBEAT_CHECK
    /\ ws_pc' = IF heartbeat_missed(last_heartbeat, ws_now') THEN "after"
                ELSE IF shutdown THEN "after"
                ELSE "stream"
    /\ UNCHANGED <<state, shutdown, disconnection_timestamps, last_heartbeat, backoff_ms,
                   rotation_deadline, sleep_duration, jitter, sender_queue,
                   receiver_dropped, pending_send, failures, sessions, attempts,
                   checked, last_wait, state_log, connected_at, frames, delivered,
                   last_frame,
                   frame_parity>>
    /\ UNCHANGED notWsVars

heartbeat_check == heartbeat_check_in(WsBounds)

\* A send that was waiting completes, some time after it began: room has
\* been made, or the receiver is gone.
send_resume ==
    /\ ws_pc = "send_blocked"
    /\ receiver_dropped \/ Len(sender_queue) < ChannelCapacity
    /\ \E w \in SendWaits : ws_now' = ws_now + w
    /\ IF receiver_dropped
       THEN /\ ws_pc' = "after"
            /\ UNCHANGED sender_queue
       ELSE /\ sender_queue' = Append(sender_queue, pending_send[1])
            /\ ws_pc' = IF pending_send[1].ok THEN "stream" ELSE "after"
    /\ pending_send' = <<>>
    /\ UNCHANGED <<state, shutdown, disconnection_timestamps, last_heartbeat, backoff_ms,
                   rotation_deadline, sleep_duration, jitter, receiver_dropped,
                   failures, sessions, attempts, checked, last_wait, state_log,
                   connected_at, frames, delivered, last_frame, frame_parity>>
    /\ UNCHANGED notWsVars

\* The consumer takes an item off the channel.
consumer_recv ==
    /\ ~receiver_dropped
    /\ sender_queue # <<>>
    /\ sender_queue' = Tail(sender_queue)
    /\ delivered' = Append(delivered, [ok |-> Head(sender_queue).ok,
                                       id |-> Head(sender_queue).id,
                                       session |-> Head(sender_queue).session])
    /\ UNCHANGED <<state, shutdown, disconnection_timestamps, last_heartbeat, backoff_ms,
                   rotation_deadline, sleep_duration, jitter, ws_pc, ws_now,
                   receiver_dropped, pending_send, failures, sessions, attempts,
                   checked, last_wait, state_log, connected_at, frames,
                   last_frame,
                   frame_parity>>
    /\ UNCHANGED notWsVars

\* The consumer drops its receiver.
receiver_drop ==
    /\ ~receiver_dropped
    /\ receiver_dropped' = TRUE
    /\ sender_queue' = <<>>
    /\ UNCHANGED <<state, shutdown, disconnection_timestamps, last_heartbeat, backoff_ms,
                   rotation_deadline, sleep_duration, jitter, ws_pc, ws_now,
                   pending_send, failures, sessions, attempts, checked, last_wait,
                   state_log, connected_at, frames, delivered, last_frame,
                   frame_parity>>
    /\ UNCHANGED notWsVars

\* Step 4 of a loop that also ends once the receiver of the channel has
\* been dropped.
after_session_ends_on_drop ==
    /\ ws_pc = "after"
    /\ frame_parity' = 0
    /\ IF shutdown \/ receiver_dropped
       THEN /\ state' = "Disconnected"
            /\ state_log' = Logged(state_log, state, "Disconnected")
            /\ ws_pc' = "done"
            /\ UNCHANGED <<disconnection_timestamps, sleep_duration, jitter, last_wait>>
       ELSE \E j \in JitterInputs :
               /\ state' = "Reconnecting"
               /\ state_log' = Logged(state_log, state, "Reconnecting")
               /\ disconnection_timestamps' =
                      record_disconnection(disconnection_timestamps, ws_now)
               /\ jitter' = j
               /\ sleep_duration' = backoff_ms + j
               /\ last_wait' = [kind |-> "backoff", ms |-> backoff_ms + j]
               /\ ws_pc' = "backoff_sleep"
    /\ UNCHANGED <<shutdown, last_heartbeat, backoff_ms, rotation_deadline, ws_now,
                   sender_queue, receiver_dropped, pending_send, failures,
                   sessions, attempts, checked, connected_at, frames,
                   delivered, last_frame>>
    /\ UNCHANGED notWsVars

\* Step 4 up to the backoff sleep: leave on shutdown, else Reconnecting,
\* record the disconnection, draw the jitter and start the wait.
after_session ==
    /\ ws_pc = "after"
    /\ frame_parity' = 0
    /\ IF shutdown
       THEN /\ state' = "Disconnected"
            /\ state_log' = Logged(state_log, state, "Disconnected")
            /\ ws_pc' = "done"
            /\ UNCHANGED <<disconnection_timestamps, sleep_duration, jitter, last_wait>>
       ELSE \E j \in JitterInputs :
               /\ state' = "Reconnecting"
               /\ state_log' = Logged(state_log, state, "Reconnecting")
               /\ disconnection_timestamps' =
                      record_disconnection(disconnection_timestamps, ws_now)
               /\ jitter' = j
               /\ sleep_duration' = backoff_ms + j
               /\ last_wait' = [kind |-> "backoff", ms |-> backoff_ms + j]
               /\ ws_pc' = "backoff_sleep"
    /\ UNCHANGED <<shutdown, last_heartbeat, backoff_ms, rotation_deadline, ws_now,
                   sender_queue, receiver_dropped, pending_send, failures,
                   sessions, attempts, checked, connected_at, frames,
                   delivered, last_frame>>
    /\ UNCHANGED notWsVars

\* time::sleep(sleep_duration) is over: double the backoff, back to the loop head.
backoff_wake ==
    /\ ws_pc = "backoff_sleep"
    /\ ws_now' = ws_now + sleep_duration
    /\ backoff_ms' = next_backoff(backoff_ms)
    /\ ws_pc' = "top"
    /\ UNCHANGED <<state, shutdown, disconnection_timestamps, last_heartbeat,
                   rotation_deadline, sleep_duration, jitter, sender_queue,
                   receiver_dropped, pending_send, failures, sessions, attempts,
                   checked, last_wait, state_log, connected_at, frames,
                   delivered, last_frame,
                   frame_parity>>
    /\ UNCHANGED notWsVars

(***************************************************************************)
(* The order-book stream tasks main.rs spawns, one per symbol and venue.   *)
(*   binance_pc: idle -> connect -> subscribe -> read -> sleep -> connect  *)
(*   bybit_pc:   idle -> connect -> subscribe -> read -> returned          *)
(* and "panicked" once an expect or unwrap has aborted the task.  Frames   *)
(* that change nothing (Binary, Pong, the subscription ack, text that      *)
(* does not parse, a Ping whose Pong is sent) leave the task where it is.  *)
(***************************************************************************)
\* tokio::spawn of run_orderbook_stream_binance (main.rs:151-158).
binance_spawn ==
    /\ binance_pc = "idle"
    /\ binance_pc' = "connect"
    /\ UNCHANGED <<binance_fault, bybit_pc, bybit_fault>>
    /\ UNCHANGED <<trackerVars, notClientVars>>

\* connect_async(url).await returned Ok.
binance_connect_ok ==
    /\ binance_pc = "connect"
    /\ binance_pc' = "subscribe"
    /\ UNCHANGED <<binance_fault, bybit_pc, bybit_fault>>
    /\ UNCHANGED <<trackerVars, notClientVars>>

\* connect_async(url).await returned Err: expect panics.
binance_connect_err ==
    /\ binance_pc = "connect"
    /\ binance_pc' = "panicked"
    /\ binance_fault' = "connect"
    /\ UNCHANGED <<bybit_pc, bybit_fault>>
    /\ UNCHANGED <<trackerVars, notClientVars>>

\* write.send(subscribe_msg).await.unwrap()
binance_subscribe(sent) ==
    /\ binance_pc = "subscribe"
    /\ IF sent
       THEN binance_pc' = "read" /\ UNCHANGED binance_fault
       ELSE binance_pc' = "panicked" /\ binance_fault' = "subscribe"
    /\ UNCHANGED <<bybit_pc, bybit_fault>>
    /\ UNCHANGED <<trackerVars, notClientVars>>

\* A price as the venue writes it: a string that is a decimal number or is
\* not.
PriceText(numeric, value) == [numeric |-> numeric, value |-> value]
\* The first level of one side of the book: <<>> when the side is empty.
Level(value) == <<PriceText(TRUE, value)>>
BookInputs ==
    {<<Level(q[1]), Level(q[2])>> : q \in QuoteInputs}
    \cup {<<<<>>, Level(200)>>, <<Level(200), <<>>>>, <<<<>>, <<>>>>,
          <<<<PriceText(FALSE, 0)>>, Level(200)>>}

\* bid[0].parse().unwrap_or(0.0)
parse_unwrap_or(text) == IF text.numeric THEN text.value ELSE 0

\* if let (Some(bid), Some(ask)) = (bids.get(0), asks.get(0)): the prices
\* handed to the tracker, <<>> when the frame is passed over.
top_of_book(bids, asks) ==
    IF bids # <<>> /\ asks # <<>>
    THEN <<parse_unwrap_or(bids[1]), parse_unwrap_or(asks[1])>>
    ELSE <<>>

\* A depth update is read: its top of book, if it has one, is handed to the
\* tracker.
binance_text(symbol, bids, asks, market_type) ==
    /\ binance_pc = "read"
    /\ IF top_of_book(bids, asks) # <<>>
       THEN update_in(BINANCE, symbol, top_of_book(bids, asks)[1],
                      top_of_book(bids, asks)[2], market_type)
       ELSE UNCHANGED trackerVars
    /\ UNCHANGED <<binance_pc, binance_fault, bybit_pc, bybit_fault>>
    /\ UNCHANGED notClientVars

\* A Ping is read and the Pong cannot be sent: unwrap panics.
binance_pong_err ==
    /\ binance_pc = "read"
    /\ binance_pc' = "panicked"
    /\ binance_fault' = "pong"
    /\ UNCHANGED <<bybit_pc, bybit_fault>>
    /\ UNCHANGED <<trackerVars, notClientVars>>

\* read.next() gives Some(Err(e)) (break) or None (the while let ends); a
\* Close frame is followed by one of the two.  The task sleeps 10 s.
binance_read_fail(fault) ==
    /\ binance_pc = "read"
    /\ binance_pc' = "sleep"
    /\ binance_fault' = fault
    /\ UNCHANGED <<bybit_pc, bybit_fault>>
    /\ UNCHANGED <<trackerVars, notClientVars>>

\* The 10 s are over: the outer loop connects again.
binance_wake ==
    /\ binance_pc = "sleep"
    /\ binance_pc' = "connect"
    /\ UNCHANGED <<binance_fault, bybit_pc, bybit_fault>>
    /\ UNCHANGED <<trackerVars, notClientVars>>

\* tokio::spawn of run_orderbook_stream_bybit_futures (main.rs:108-115).
bybit_spawn ==
    /\ bybit_pc = "idle"
    /\ bybit_pc' = "connect"
    /\ UNCHANGED <<binance_pc, binance_fault, bybit_fault>>
    /\ UNCHANGED <<trackerVars, notClientVars>>

\* connect_async(url).await returned Ok.
bybit_connect_ok ==
    /\ bybit_pc = "connect"
    /\ bybit_pc' = "subscribe"
    /\ UNCHANGED <<binance_pc, binance_fault, bybit_fault>>
    /\ UNCHANGED <<trackerVars, notClientVars>>

\* connect_async(url).await returned Err: expect panics.
bybit_connect_err ==
    /\ bybit_pc = "connect"
    /\ bybit_pc' = "panicked"
    /\ bybit_fault' = "connect"
    /\ UNCHANGED <<binance_pc, binance_fault>>
    /\ UNCHANGED <<trackerVars, notClientVars>>

\* write.send(subscribe_msg).await.unwrap()
bybit_subscribe(sent) ==
    /\ bybit_pc = "subscribe"
    /\ IF sent
       THEN bybit_pc' = "read" /\ UNCHANGED bybit_fault
       ELSE bybit_pc' = "panicked" /\ bybit_fault' = "subscribe"
    /\ UNCHANGED <<binance_pc, binance_fault>>
    /\ UNCHANGED <<trackerVars, notClientVars>>

\* An order-book message is read: its top of book, if it has one, is
\* handed to the tracker, as Futures.
bybit_text(symbol, bids, asks) ==
    /\ bybit_pc = "read"
    /\ IF top_of_book(bids, asks) # <<>>
       THEN update_in(BYBIT, symbol, top_of_book(bids, asks)[1],
                      top_of_book(bids, asks)[2], "Futures")
       ELSE UNCHANGED trackerVars
    /\ UNCHANGED <<binance_pc, binance_fault, bybit_pc, bybit_fault>>
    /\ UNCHANGED notClientVars

\* The select! loop breaks: read.next() gave Some(Err) or None, or the Pong
\* or the 20 s Ping could not be sent.  Nothing follows the loop, so the
\* function returns and the task ends.
bybit_break(fault) ==
    /\ bybit_pc = "read"
    /\ bybit_pc' = "returned"
    /\ bybit_fault' = fault
    /\ UNCHANGED <<binance_pc, binance_fault>>
    /\ UNCHANGED <<trackerVars, notClientVars>>

\* What ends a read loop: a read error or the end of the stream, and for
\* the Bybit task also a Pong or a Ping that cannot be sent.
ReadFaults == {"read", "end"}
BreakFaults == {"read", "end", "pong", "ping"}

(***************************************************************************)
(* BinanceExchange::subscribe_prices: the price feed task ArbitrageEngine  *)
(* spawns, and the channel it feeds.                                       *)
(*   prices_pc: idle -> connect -> read -> [send ->] read ... -> sleep     *)
(*              -> connect, and "returned" once the channel is closed      *)
(***************************************************************************)
\* Capacity of the price channel. exchanges.rs:67 creates it with 100; the
\* model runs a scaled channel.
PriceCapacity == 2
\* Bound of the feed's environment: frames read and pongs sent.
MaxWire == 4
PingPayloads == {1, 2}

PriceData(exchange, symbol, bid, ask) ==
    [exchange |-> exchange, symbol |-> symbol, bid |-> bid, ask |-> ask]

\* What went over the socket: a frame read, or a Pong written.
WireEvent(event, payload) == [event |-> event, payload |-> payload]

\* tokio::spawn of exchange.subscribe_prices(price_tx).
prices_spawn ==
    /\ prices_pc = "idle"
    /\ prices_pc' = "connect"
    /\ UNCHANGED <<price_rx, price_rx_dropped, price_pending, wire>>
    /\ UNCHANGED notPricesVars

\* connect_async(&self.ws_url).await: Ok, or Err and a sleep of 5 s.
prices_connect(ok) ==
    /\ prices_pc = "connect"
    /\ prices_pc' = IF ok THEN "read" ELSE "sleep"
    /\ UNCHANGED <<price_rx, price_rx_dropped, price_pending, wire>>
    /\ UNCHANGED notPricesVars

\* The 5 s are over: the outer loop connects again.
prices_wake ==
    /\ prices_pc = "sleep"
    /\ prices_pc' = "connect"
    /\ UNCHANGED <<price_rx, price_rx_dropped, price_pending, wire>>
    /\ UNCHANGED notPricesVars

\* A text frame is read.  Text that is no JSON, a book without a first
\* level and a bid or ask of 0 are passed over; otherwise the PriceData is
\* built and sent.
prices_text(json, bids, asks) ==
    /\ prices_pc = "read"
    /\ Len(wire) < MaxWire
    /\ wire' = Append(wire, WireEvent("frame", 0))
    /\ IF json /\ top_of_book(bids, asks) # <<>>
            /\ top_of_book(bids, asks)[1] # 0 /\ top_of_book(bids, asks)[2] # 0
       THEN /\ price_pending' = <<PriceData(BINANCE, BTC_USDT_BYBIT,
                                            top_of_book(bids, asks)[1],
                                            top_of_book(bids, asks)[2])>>
            /\ prices_pc' = "send"
       ELSE UNCHANGED <<price_pending, prices_pc>>
    /\ UNCHANGED <<price_rx, price_rx_dropped>>
    /\ UNCHANGED notPricesVars

\* tx.send(data).await completes: the receiver is gone and the task
\* returns, or there is room and the data is queued.
prices_send ==
    /\ prices_pc = "send"
    /\ price_rx_dropped \/ Len(price_rx) < PriceCapacity
    /\ IF price_rx_dropped
       THEN prices_pc' = "returned" /\ UNCHANGED price_rx
       ELSE prices_pc' = "read" /\ price_rx' = Append(price_rx, price_pending[1])
    /\ price_pending' = <<>>
    /\ UNCHANGED <<price_rx_dropped, wire>>
    /\ UNCHANGED notPricesVars

\* if let Message::Ping(_data) = msg: a line is printed.  The write half of
\* the stream was dropped at the split, and nothing is sent.
prices_ping(payload) ==
    /\ prices_pc = "read"
    /\ Len(wire) < MaxWire
    /\ wire' = Append(wire, WireEvent("ping", payload))
    /\ UNCHANGED <<prices_pc, price_rx, price_rx_dropped, price_pending>>
    /\ UNCHANGED notPricesVars

\* A Binary, Pong or Close frame is read: neither if let matches.
prices_frame ==
    /\ prices_pc = "read"
    /\ Len(wire) < MaxWire
    /\ wire' = Append(wire, WireEvent("frame", 0))
    /\ UNCHANGED <<prices_pc, price_rx, price_rx_dropped, price_pending>>
    /\ UNCHANGED notPricesVars

\* read.next() gives Some(Err(e)) (break) or None: the task sleeps 5 s.
prices_break ==
    /\ prices_pc = "read"
    /\ prices_pc' = "sleep"
    /\ UNCHANGED <<price_rx, price_rx_dropped, price_pending, wire>>
    /\ UNCHANGED notPricesVars

\* ArbitrageEngine::run: self.price_rx.recv().await gives Some(price_data).
price_recv ==
    /\ ~price_rx_dropped
    /\ price_rx # <<>>
    /\ price_rx' = Tail(price_rx)
    /\ UNCHANGED <<prices_pc, price_rx_dropped, price_pending, wire>>
    /\ UNCHANGED notPricesVars

\* The engine, and price_rx with it, is dropped.
price_rx_drop ==
    /\ ~price_rx_dropped
    /\ price_rx_dropped' = TRUE
    /\ price_rx' = <<>>
    /\ UNCHANGED <<prices_pc, price_pending, wire>>
    /\ UNCHANGED notPricesVars

(***************************************************************************)
(* BinanceTradingClient::send_signed_request: one request is sent and the  *)
(* socket is read until the call returns.  An id is a JSON value: absent,  *)
(* a string or a number; the n-th call draws the fresh string n.           *)
(***************************************************************************)
MaxRequests == 2
MaxApiFrames == 3

NoId == <<>>
StringId(n) == <<"string", n>>
NumberId(n) == <<"number", n>>

ERR_CLOSED == "WebSocket connection closed unexpectedly."
ERR_JSON == "serde_json::Error"
ERR_SEND == "tungstenite::Error"

\* Result<BinanceOrderResponse>
Ok(reply) == [ok |-> TRUE, error |-> "", reply |-> <<reply>>]
Err(error) == [ok |-> FALSE, error |-> error, reply |-> <<>>]

\* The fields of BinanceOrderResponse besides id: status, result and error,
\* the two Options as <<>> (None) or <<x>> (Some(x)).
Body(status, result, error) == [status |-> status, result |-> result, error |-> error]
NoBody == Body(200, <<>>, <<>>)
OrderResult == [order_id |-> 7]
WsError == [code |-> -2010, msg |-> "rejected"]
BodyInputs ==
    {NoBody, Body(200, <<OrderResult>>, <<>>), Body(200, <<>>, <<WsError>>),
     Body(400, <<>>, <<WsError>>), Body(400, <<OrderResult>>, <<>>)}

\* What ws_stream.next().await can give.  json: the text parses as JSON;
\* shape: the value deserializes as BinanceOrderResponse, whose id is a
\* String.
Inbound(kind, json, id, shape) ==
    [kind |-> kind, json |-> json, id |-> id, shape |-> shape, body |-> NoBody]
\* A text frame that deserializes as BinanceOrderResponse.
Reply(id, body) == [Inbound("Text", TRUE, id, TRUE) EXCEPT !.body = body]
IdInputs == {NoId, NumberId(1)} \cup {StringId(n) : n \in 1..MaxRequests}
InboundInputs ==
    {Inbound(kind, FALSE, NoId, FALSE) :
        kind \in {"Text", "Binary", "Ping", "Pong", "Close", "Err", "None"}}
    \cup {Inbound("Text", TRUE, id, FALSE) : id \in IdInputs}
    \cup {Reply(StringId(n), body) : n \in 1..MaxRequests, body \in BodyInputs}

\* Value::as_str: Some(s) for a string, None otherwise.
as_str(id) == IF id # NoId /\ id[1] = "string" THEN <<id[2]>> ELSE <<>>

\* The id test with the comparison left out.
id_matches_any(response, rid) == as_str(response.id) # <<>>

\* response["id"].as_str() == Some(&request_id)
id_matches(response, rid) == as_str(response.id) = <<rid>>

\* The third match arm without the Close frame.
ends_stream_noclose(kind) == kind \in {"Err", "None"}

\* Some(Ok(Message::Close(_))) | Some(Err(_)) | None
ends_stream(kind) == kind \in {"Close", "Err", "None"}

\* One turn of the loop: <<>> to go on waiting, <<r>> to return r.
on_inbound(msg, rid) ==
    IF msg.kind = "Text"
    THEN IF ~msg.json THEN <<Err(ERR_JSON)>>
         ELSE IF id_matches(msg, rid)
         THEN (IF msg.shape THEN <<Ok(msg)>> ELSE <<Err(ERR_JSON)>>)
         ELSE <<>>
    ELSE IF ends_stream(msg.kind) THEN <<Err(ERR_CLOSED)>>
    ELSE <<>>

\* The three operations and the text their error starts with.
Methods == {"order.place", "order.cancel", "order.status"}
OperationError(method) ==
    CASE method = "order.place" -> "Order Placement Error"
      [] method = "order.cancel" -> "Order Cancellation Error"
      [] OTHER -> "Order Status Check Error"

\* Result<BinanceOrderResult>: detail is the Option<WsError> an operation's
\* own error is formatted from.
OpOk(result) == [ok |-> TRUE, error |-> "", detail |-> <<>>, result |-> <<result>>]
OpErr(error, detail) == [ok |-> FALSE, error |-> error, detail |-> detail, result |-> <<>>]

\* An operation that goes by the status of the reply.
future_order_by_status(method, r) ==
    IF ~r.ok THEN OpErr(r.error, <<>>)
    ELSE IF r.reply[1].body.status = 200
    THEN OpOk(IF r.reply[1].body.result # <<>> THEN r.reply[1].body.result[1] ELSE OrderResult)
    ELSE OpErr(OperationError(method), r.reply[1].body.error)

\* future_order_place, future_order_cancel, future_order_status once
\* send_signed_request has returned r: `?` hands an Err on, and
\* match response.result decides the rest.
future_order(method, r) ==
    IF ~r.ok THEN OpErr(r.error, <<>>)
    ELSE IF r.reply[1].body.result # <<>>
    THEN OpOk(r.reply[1].body.result[1])
    ELSE OpErr(OperationError(method), r.reply[1].body.error)

\* An operation calls send_signed_request: the request is built and sent.
request_in(method, sent) ==
    /\ api_pc \in {"idle", "returned"}
    /\ requests < MaxRequests
    /\ requests' = requests + 1
    /\ request_id' = requests + 1
    /\ api_method' = method
    /\ api_inbound' = <<>>
    /\ IF sent
       THEN api_pc' = "waiting" /\ api_result' = <<>> /\ op_result' = <<>>
       ELSE /\ api_pc' = "returned"
            /\ api_result' = <<Err(ERR_SEND)>>
            /\ op_result' = <<future_order(method, Err(ERR_SEND))>>

\* self.ws_stream.next().await completes inside the loop; when the loop
\* returns, so does the operation.
next_in(msg) ==
    /\ api_pc = "waiting"
    /\ Len(api_inbound) < MaxApiFrames
    /\ api_inbound' = Append(api_inbound, msg)
    /\ IF on_inbound(msg, request_id) = <<>>
       THEN UNCHANGED <<api_pc, api_result, op_result>>
       ELSE /\ api_pc' = "returned"
            /\ api_result' = on_inbound(msg, request_id)
            /\ op_result' = <<future_order(api_method, on_inbound(msg, request_id)[1])>>
    /\ UNCHANGED <<request_id, requests, api_method>>

\* An operation called on a client of its own.
send_signed_request(method, sent) ==
    /\ request_in(method, sent)
    /\ UNCHANGED exchangeVars
    /\ UNCHANGED notApiVars

api_next(msg) ==
    /\ next_in(msg)
    /\ UNCHANGED exchangeVars
    /\ UNCHANGED notApiVars

(***************************************************************************)
(* BinanceExchange::place_order_future: the tasks that place orders share  *)
(* one BinanceTradingClient behind a tokio Mutex.  The venue answers a     *)
(* request it has received once, at any later moment.                      *)
(***************************************************************************)
Tasks == {1, 2}
NoTask == 0

\* The id the venue's frame answers, if it is the reply to a request.
answers(msg) == IF msg.kind = "Text" /\ msg.json THEN as_str(msg.id) ELSE <<>>

\* place_order_future is called and reaches self.trading_client.lock().await.
place_order_future_call(t) ==
    /\ task_pc[t] = "idle"
    /\ requests + Cardinality({u \in Tasks : task_pc[u] = "locking"}) < MaxRequests
    /\ task_pc' = [task_pc EXCEPT ![t] = "locking"]
    /\ UNCHANGED <<lock_holder, unanswered, stream_closed, reads>>
    /\ UNCHANGED <<apiVars, notApiVars>>

\* The lock is granted and future_order_place sends its request; a send
\* that fails returns at once, and the guard is dropped on return.  Nothing
\* can be sent on a stream that has closed.
place_order_future_locked(t, sent) ==
    /\ task_pc[t] = "locking"
    /\ lock_holder = NoTask
    /\ sent => ~stream_closed
    /\ request_in("order.place", sent)
    /\ lock_holder' = IF sent THEN t ELSE NoTask
    /\ task_pc' = [task_pc EXCEPT ![t] = IF sent THEN "waiting" ELSE "idle"]
    /\ unanswered' = IF sent THEN unanswered \cup {requests + 1} ELSE unanswered
    /\ UNCHANGED <<stream_closed, reads>>
    /\ UNCHANGED notApiVars

\* The task holding the lock reads the next frame; when its operation
\* returns, place_order_future returns and the guard is dropped.
place_order_future_next(msg) ==
    /\ lock_holder # NoTask
    /\ answers(msg) # <<>> => answers(msg)[1] \in unanswered
    /\ next_in(msg)
    /\ unanswered' = IF answers(msg) # <<>> THEN unanswered \ {answers(msg)[1]} ELSE unanswered
    /\ stream_closed' = ends_stream(msg.kind)
    /\ reads' = IF answers(msg) # <<>>
                THEN reads \cup {<<answers(msg)[1], request_id>>}
                ELSE reads
    /\ IF on_inbound(msg, request_id) = <<>>
       THEN UNCHANGED <<lock_holder, task_pc>>
       ELSE /\ lock_holder' = NoTask
            /\ task_pc' = [task_pc EXCEPT ![lock_holder] = "idle"]
    /\ UNCHANGED notApiVars

\* tokio::try_join! drops the future of a place_order_future that is still
\* waiting when the other order has failed: the guard is dropped with it.
place_order_future_drop(t) ==
    /\ lock_holder = t
    /\ lock_holder' = NoTask
    /\ task_pc' = [task_pc EXCEPT ![t] = "idle"]
    /\ api_pc' = "idle"
    /\ UNCHANGED <<request_id, api_result, api_inbound, requests, api_method, op_result>>
    /\ UNCHANGED <<unanswered, stream_closed, reads>>
    /\ UNCHANGED notApiVars

(***************************************************************************)
(* BinanceAuth::augment_and_sign_params.  Keys and values are strings, as  *)
(* sequences of code points; a BTreeMap<String, String> is a function on   *)
(* its keys.  HMAC-SHA256 is kept as the pair of its key and its message.  *)
(***************************************************************************)
MaxSignings == 3

KEY_API_KEY == <<97, 112, 105, 75, 101, 121>>                \* "apiKey"
KEY_TIMESTAMP == <<116, 105, 109, 101, 115, 116, 97, 109, 112>>     \* "timestamp"
KEY_RECV_WINDOW == <<114, 101, 99, 118, 87, 105, 110, 100, 111, 119>>   \* "recvWindow"
KEY_SIGNATURE == <<115, 105, 103, 110, 97, 116, 117, 114, 101>>      \* "signature"
RECV_WINDOW == 5000

\* What the operations of api.rs pass in: order.to_params() of a limit
\* order (order.rs:157-220, create_limit_order) and {symbol, orderId}.
ParamsInputs ==
    {((<<115, 121, 109, 98, 111, 108>> :> <<66, 84, 67, 85, 83, 68, 84>>) @@ (<<115, 105, 100, 101>> :> <<66, 85, 89>>) @@ (<<116, 121, 112, 101>> :> <<76, 73, 77, 73, 84>>) @@ (<<116, 105, 109, 101, 73, 110, 70, 111, 114, 99, 101>> :> <<71, 84, 67>>) @@ (<<113, 117, 97, 110, 116, 105, 116, 121>> :> <<49>>) @@ (<<112, 114, 105, 99, 101>> :> <<49, 48, 48>>) @@ (<<110, 101, 119, 79, 114, 100, 101, 114, 82, 101, 115, 112, 84, 121, 112, 101>> :> <<82, 69, 83, 85, 76, 84>>)),
     ((<<115, 121, 109, 98, 111, 108>> :> <<66, 84, 67, 85, 83, 68, 84>>) @@ (<<115, 105, 100, 101>> :> <<83, 69, 76, 76>>) @@ (<<116, 121, 112, 101>> :> <<76, 73, 77, 73, 84>>) @@ (<<116, 105, 109, 101, 73, 110, 70, 111, 114, 99, 101>> :> <<71, 84, 67>>) @@ (<<113, 117, 97, 110, 116, 105, 116, 121>> :> <<49>>) @@ (<<112, 114, 105, 99, 101>> :> <<49, 48, 48>>) @@ (<<110, 101, 119, 79, 114, 100, 101, 114, 82, 101, 115, 112, 84, 121, 112, 101>> :> <<82, 69, 83, 85, 76, 84>>)),
     ((<<115, 121, 109, 98, 111, 108>> :> <<66, 84, 67, 85, 83, 68, 84>>) @@ (<<111, 114, 100, 101, 114, 73, 100>> :> <<55>>))}
ApiKeyInputs == {<<107, 101, 121>>}                     \* "key"
SecretInputs == {<<97, 98, 99>>, <<97, 98, 100>>}   \* "abc", "abd"
TimestampInputs == {999, 1000}

\* u128::to_string and i32::to_string: the decimal digits.
RECURSIVE to_string(_)
to_string(n) == IF n < 10 THEN <<48 + n>> ELSE to_string(n \div 10) \o <<48 + (n % 10)>>

\* BTreeMap::insert
insert(map, key, value) ==
    [k \in DOMAIN map \cup {key} |-> IF k = key THEN value ELSE map[k]]

\* The keys from the largest down.
RECURSIVE iter_descending(_)
iter_descending(keys) ==
    IF keys = {} THEN <<>>
    ELSE LET last == CHOOSE k \in keys : \A j \in keys : StrLe(j, k)
         IN  <<last>> \o iter_descending(keys \ {last})

\* BTreeMap::iter: the keys in ascending order of String.
RECURSIVE iter(_)
iter(keys) ==
    IF keys = {} THEN <<>>
    ELSE LET first == CHOOSE k \in keys : \A j \in keys : StrLe(k, j)
         IN  <<first>> \o iter(keys \ {first})

\* .map(|(k, v)| format!("{}={}", k, v)).collect::<Vec<_>>().join("&")
RECURSIVE join(_, _, _)
join(map, keys, i) ==
    IF i > Len(keys) THEN <<>>
    ELSE (IF i > 1 THEN <<38>> ELSE <<>>) \o keys[i] \o <<61>> \o map[keys[i]]
         \o join(map, keys, i + 1)

query_string(map) == join(map, iter(DOMAIN map), 1)

\* sign_payload: hex of HMAC-SHA256 keyed with the secret over the query.
sign_payload(api_secret, query) == [hmac_sha256_key |-> api_secret, over |-> query]

\* augment_and_sign_params, with the clock reading it takes as timestamp.
augment_and_sign_params(api_key, api_secret, params, timestamp) ==
    LET augmented == insert(insert(insert(params, KEY_API_KEY, api_key),
                                   KEY_TIMESTAMP, to_string(timestamp)),
                            KEY_RECV_WINDOW, to_string(RECV_WINDOW))
        query == query_string(augmented)
    IN  [query |-> query,
         params |-> insert(augmented, KEY_SIGNATURE, sign_payload(api_secret, query))]

\* One call of augment_and_sign_params.
sign(api_key, api_secret, params, timestamp) ==
    /\ Cardinality(signings) < MaxSignings
    /\ signings' = signings \cup
          {[api_key |-> api_key, api_secret |-> api_secret, params |-> params,
            timestamp |-> timestamp,
            out |-> augment_and_sign_params(api_key, api_secret, params, timestamp)]}
    /\ UNCHANGED notAuthVars

(***************************************************************************)
(* The tracker's Mutex.  main.rs:60 puts the MarketTracker into an         *)
(* Arc<Mutex<..>>; each stream task locks it for one update, the 24 h      *)
(* ticker locks it for one reset.  lock_pc follows each task:              *)
(*   idle -> locked -> released_next -> idle                               *)
(***************************************************************************)
TICKER == <<116, 105, 99, 107, 101, 114>>          \* "ticker"
StreamTasks == {BINANCE, BYBIT}
LockTasks == StreamTasks \cup {TICKER}

\* The market types a stream task hands to update: the Binance task takes
\* the one of the frame, the Bybit task sets Futures (bybit_client_futures.rs:52).
TaskMarketTypes(t) == IF t = BYBIT THEN {"Futures"} ELSE MarketTypes

\* tracker.lock().await returns the guard: the Mutex is free and becomes t's.
tracker_lock(t) ==
    /\ lock_pc[t] = "idle"
    /\ tracker_mutex = <<>>
    /\ t \in StreamTasks => TotalSnapshots < MaxUpdates
    /\ tracker_mutex' = t
    /\ lock_pc' = [lock_pc EXCEPT ![t] = "locked"]
    /\ UNCHANGED <<io_log, gateVars, trackerVars, notLockVars>>

\* tracker.update(..) through the guard: the snapshot is pushed, the
\* comparator runs and CsvLogger::log opens the file and writes a line for
\* each result, all before the guard goes.
locked_update(t, symbol, bid, ask, market_type) ==
    /\ t \in StreamTasks
    /\ lock_pc[t] = "locked"
    /\ update_in(t, symbol, bid, ask, market_type)
    /\ io_log' = io_log \o [i \in 1..(Len(csv') - Len(csv)) |-> tracker_mutex]
    /\ lock_pc' = [lock_pc EXCEPT ![t] = "released_next"]
    /\ UNCHANGED <<tracker_mutex, gateVars, notLockVars>>

\* tracker_reset.lock().await.alert_gate.reset() of the ticker task.
locked_reset ==
    /\ lock_pc[TICKER] = "locked"
    /\ reset_in
    /\ lock_pc' = [lock_pc EXCEPT ![TICKER] = "released_next"]
    /\ UNCHANGED <<tracker_mutex, io_log, trackerVars, notLockVars>>

\* The guard is dropped: at the end of the if-let block of the stream
\* tasks, at the end of the statement of the ticker.
guard_drop(t) ==
    /\ lock_pc[t] = "released_next"
    /\ tracker_mutex' = <<>>
    /\ lock_pc' = [lock_pc EXCEPT ![t] = "idle"]
    /\ UNCHANGED <<io_log, gateVars, trackerVars, notLockVars>>

(***************************************************************************)
(* ArbitrageEngine (exchanges.rs).  new() spawns one subscribe_prices task *)
(* per exchange, all sending on the price channel; run() takes the prices  *)
(* one at a time.  engine_pc follows the task that runs the engine:        *)
(*   new -> recv -> [try_join -> sleep ->] recv ... -> done                *)
(***************************************************************************)
\* enum ExchangeId
ExchangeId == {"Binance", "Bybit"}

\* The threshold new() is given, in units of 1/EngineScale: 0.05.
EngineScale == 1000
engine_threshold == 50

\* Bounds of the engine's environment: the PriceData the feeds send in all,
\* the quotes <<bid, ask>> they carry, the lists of exchanges new() is given.
MaxFed == 4
EngineQuotes == {<<100, 101>>, <<110, 111>>}
ExchangeLists == {<<"Binance", "Bybit">>, <<"Bybit">>}

\* num / den > self.threshold in f64, den >= 0: x / 0.0 is +inf, -inf or NaN.
ExceedsThreshold(num, den) ==
    IF den = 0 THEN num > 0 ELSE num * EngineScale > engine_threshold * den

\* An insert that leaves an entry already present as it is.
market_state_keep(ms, price_data) ==
    [e \in DOMAIN ms \cup {price_data.exchange} |->
        IF e \in DOMAIN ms THEN ms[e] ELSE price_data]

\* self.market_state.insert(price_data.exchange, price_data.clone())
market_state_insert(ms, price_data) ==
    [e \in DOMAIN ms \cup {price_data.exchange} |->
        IF e = price_data.exchange THEN price_data ELSE ms[e]]

\* The call of execute_trade a check decides on.
Trade(buy, sell, buy_price, sell_price) ==
    [buy |-> buy, sell |-> sell, buy_price |-> buy_price, sell_price |-> sell_price]

\* check_for_opportunity: <<>> when it returns without a trade, else the
\* arguments of the one execute_trade it calls.  ExchangeId has two
\* variants, so the loop meets at most one entry other than the updated one.
check_for_opportunity(ms, updated_exchange_id) ==
    LET others == DOMAIN ms \ {updated_exchange_id}
    IN  IF updated_exchange_id \notin DOMAIN ms \/ others = {} THEN <<>>
        ELSE LET a_snapshot == ms[updated_exchange_id]
                 b_exchange_id == CHOOSE e \in others : TRUE
                 b_snapshot == ms[b_exchange_id]
             IN  IF ExceedsThreshold(b_snapshot.bid - a_snapshot.ask, a_snapshot.ask)
                 THEN <<Trade(updated_exchange_id, b_exchange_id,
                              a_snapshot.ask, b_snapshot.bid)>>
                 ELSE IF ExceedsThreshold(a_snapshot.bid - b_snapshot.ask, b_snapshot.ask)
                 THEN <<Trade(b_exchange_id, updated_exchange_id,
                              b_snapshot.ask, a_snapshot.bid)>>
                 ELSE <<>>

\* One place_order_future future of a trade.
Leg(side, exchange, price) == [side |-> side, exchange |-> exchange, price |-> price]

\* execute_trade up to its first await: the engine is locked, and either an
\* exchange is missing and it returns unlocked, or both futures are built
\* and try_join! starts polling them.
execute_trade(exs, t) ==
    IF t.buy \notin exs \/ t.sell \notin exs
    THEN [is_executing |-> FALSE, engine_pc |-> "recv", in_flight |-> {},
          outcome |-> "not_found"]
    ELSE [is_executing |-> TRUE, engine_pc |-> "try_join",
          in_flight |-> {Leg("Buy", t.buy, t.buy_price), Leg("Sell", t.sell, t.sell_price)},
          outcome |-> "placed"]

\* ArbitrageEngine::new: the map of exchanges, one feed task per exchange.
engine_new(exchange_list) ==
    /\ engine_pc = "new"
    /\ exchanges' = {exchange_list[i] : i \in 1..Len(exchange_list)}
    /\ feeds' = exchanges'
    /\ market_state' = <<>>
    /\ is_executing' = FALSE
    /\ engine_pc' = "recv"
    /\ UNCHANGED <<in_flight, trades, taken, fed, price_rx, notEngineVars>>

\* A feed task sends a PriceData of its exchange; tx.send waits for room.
feed_send(e, bid, ask) ==
    /\ e \in feeds
    /\ fed < MaxFed
    /\ Len(price_rx) < PriceCapacity
    /\ price_rx' = Append(price_rx, PriceData(e, BTC_USDT_BYBIT, bid, ask))
    /\ fed' = fed + 1
    /\ UNCHANGED <<exchanges, market_state, is_executing, engine_pc, feeds, in_flight,
                   trades, taken, notEngineVars>>

\* subscribe_prices returns and the task drops its Sender.
feed_end(e) ==
    /\ e \in feeds
    /\ feeds' = feeds \ {e}
    /\ UNCHANGED <<exchanges, market_state, is_executing, engine_pc, in_flight,
                   trades, taken, fed, price_rx, notEngineVars>>

\* One turn of the loop of run(), from price_rx.recv() to the next await:
\* the price is stored, and unless the engine is locked the check runs and
\* may start a trade.
run_recv ==
    /\ engine_pc = "recv"
    /\ price_rx # <<>>
    /\ LET price_data == Head(price_rx)
           ms == market_state_insert(market_state, price_data)
           found == IF is_executing THEN <<>>
                    ELSE check_for_opportunity(ms, price_data.exchange)
       IN  /\ price_rx' = Tail(price_rx)
           /\ market_state' = ms
           /\ taken' = Append(taken, price_data)
           /\ IF found = <<>>
              THEN UNCHANGED <<is_executing, engine_pc, in_flight, trades>>
              ELSE LET r == execute_trade(exchanges, found[1])
                   IN  /\ is_executing' = r.is_executing
                       /\ engine_pc' = r.engine_pc
                       /\ in_flight' = r.in_flight
                       /\ trades' = Append(trades,
                              [update |-> Len(taken'), trade |-> found[1],
                               outcome |-> r.outcome])
    /\ UNCHANGED <<exchanges, feeds, fed, notEngineVars>>

\* try_join!: one of the two futures completes.  With Ok the other is
\* awaited if still pending; with Err try_join! returns at once and the
\* other future is dropped.  Then the 5 s sleep starts.
order_done(side, ok) ==
    /\ engine_pc = "try_join"
    /\ \E leg \in in_flight :
          /\ leg.side = side
          /\ in_flight' = IF ok THEN in_flight \ {leg} ELSE {}
    /\ engine_pc' = IF in_flight' = {} THEN "sleep" ELSE "try_join"
    /\ trades' = [trades EXCEPT ![Len(trades)].outcome =
                      IF ~ok THEN "failed" ELSE IF in_flight' = {} THEN "executed" ELSE @]
    /\ UNCHANGED <<exchanges, market_state, is_executing, feeds, taken, fed, price_rx,
                   notEngineVars>>

\* The sleep that ends without unlocking the engine.
sleep_done_stays_locked ==
    /\ engine_pc = "sleep"
    /\ engine_pc' = "recv"
    /\ UNCHANGED <<exchanges, market_state, is_executing, feeds, in_flight, trades, taken,
                   fed, price_rx, notEngineVars>>

\* time::sleep(5 s) is over: the engine is unlocked and execute_trade,
\* check_for_opportunity and the turn of the loop end.
sleep_done ==
    /\ engine_pc = "sleep"
    /\ is_executing' = FALSE
    /\ engine_pc' = "recv"
    /\ UNCHANGED <<exchanges, market_state, feeds, in_flight, trades, taken, fed,
                   price_rx, notEngineVars>>

\* price_rx.recv() yields None: every Sender is gone and the channel is
\* empty; run() returns.
run_recv_none ==
    /\ engine_pc = "recv"
    /\ price_rx = <<>>
    /\ feeds = {}
    /\ engine_pc' = "done"
    /\ UNCHANGED <<exchanges, market_state, is_executing, feeds, in_flight, trades, taken,
                   fed, price_rx, notEngineVars>>

\* The state after construction: AlertGate::new, the empty channel,
\* MarketTracker::new, WsHandler::new; no stream task spawned and no request
\* made.
Init ==
    /\ last_notified = <<>>
    /\ last_send_time = <<>>
    /\ mailbox = <<>>
    /\ rx_closed = FALSE
    /\ now = 0
    /\ gate_call = NoCall
    /\ accepted_since = <<>>
    /\ sent_since = <<>>
    /\ sent_all = {}
    /\ data = <<>>
    /\ biggest_diff = 0
    /\ results = <<>>
    /\ csv = <<>>
    /\ reported = <<>>
    /\ tracker_call = NoCall
    /\ state = "Disconnected"
    /\ shutdown = FALSE
    /\ disconnection_timestamps = <<>>
    /\ last_heartbeat = 0
    /\ backoff_ms = 0
    /\ rotation_deadline = 0
    /\ sleep_duration = 0
    /\ jitter = 0
    /\ ws_pc = "idle"
    /\ ws_now = 0
    /\ sender_queue = <<>>
    /\ receiver_dropped = FALSE
    /\ pending_send = <<>>
    /\ failures = 0
    /\ sessions = 0
    /\ attempts = 0
    /\ checked = [ring |-> <<>>, at |-> 0]
    /\ last_wait = NoWait
    /\ state_log = {}
    /\ connected_at = 0
    /\ frames = 0
    /\ delivered = <<>>
    /\ last_frame = 0
    /\ frame_parity = 0
    /\ binance_pc = "idle"
    /\ binance_fault = "none"
    /\ bybit_pc = "idle"
    /\ bybit_fault = "none"
    /\ api_pc = "idle"
    /\ request_id = 0
    /\ api_result = <<>>
    /\ api_inbound = <<>>
    /\ requests = 0
    /\ api_method = "none"
    /\ op_result = <<>>
    /\ lock_holder = NoTask
    /\ task_pc = [t \in Tasks |-> "idle"]
    /\ unanswered = {}
    /\ stream_closed = FALSE
    /\ reads = {}
    /\ signings = {}
    /\ worker_pc = "recv"
    /\ in_post = <<>>
    /\ senders = 1
    /\ posts = <<>>
    /\ enqueued = <<>>
    /\ prices_pc = "idle"
    /\ price_rx = <<>>
    /\ price_rx_dropped = FALSE
    /\ price_pending = <<>>
    /\ wire = <<>>
    /\ tracker_mutex = <<>>
    /\ lock_pc = [t \in LockTasks |-> "idle"]
    /\ io_log = <<>>
    /\ exchanges = {}
    /\ market_state = <<>>
    /\ is_executing = FALSE
    /\ engine_pc = "new"
    /\ feeds = {}
    /\ in_flight = {}
    /\ trades = <<>>
    /\ taken = <<>>
    /\ fed = 0

GateNext ==
    \/ \E symbol \in SymbolInputs, a \in ExchangeInputs, b \in ExchangeInputs,
          px \in PxInputs, d \in DiffInputs :
          a # b /\ maybe_send(symbol, a, b, px, d)
    \/ reset
    \/ worker_recv
    \/ rx_drop
    \/ Tick

SpecGate == Init /\ [][GateNext]_vars

TrackerNext ==
    \E exchange \in ExchangeInputs, symbol \in TrackerSymbols, q \in QuoteInputs,
       market_type \in MarketTypes :
        update(exchange, symbol, q[1], q[2], market_type)

SpecTracker == Init /\ [][TrackerNext]_vars

WsNext ==
    \/ start
    \/ shutdown_call
    \/ loop_top
    \/ breaker_wake
    \/ connect_ok
    \/ connect_err
    \/ \E kind \in ControlKinds, dt \in FrameDelays : stream_msg(kind, dt)
    \/ stream_err
    \/ stream_end
    \/ heartbeat_check
    \/ consumer_recv
    \/ receiver_drop
    \/ after_session
    \/ backoff_wake

SpecWs == Init /\ [][WsNext]_vars

\* One session in detail: a few connection attempts, a server that is up for
\* MaxSessionTime and delivers up to MaxFrames data frames per session.
MaxSessionAttempts == 2
MaxSessionTime == 70000
MaxFrames == 3

SessionBounds ==
    [attempts |-> MaxSessionAttempts, sessions |-> MaxSessions,
     time |-> MaxSessionTime, frames |-> MaxFrames]

\* The steps of the task start() spawns.
SessionTask ==
    \/ loop_top_in(SessionBounds)
    \/ connect_ok_in(SessionBounds)
    \/ connect_err
    \/ \E kind \in MessageKinds, dt \in FrameDelays :
          stream_msg_in(kind, dt, SessionBounds)
    \/ stream_err
    \/ stream_end
    \/ heartbeat_check_in(SessionBounds)
    \/ send_resume
    \/ after_session
    \/ backoff_wake

SessionNext ==
    \/ start
    \/ shutdown_call
    \/ SessionTask
    \/ consumer_recv
    \/ receiver_drop

\* The runtime keeps running the spawned task, and the consumer keeps
\* receiving while it holds its receiver.  Frames that arrive before the 5 s
\* timer are read at the instant the read starts, so a session in which
\* frames keep arriving is a run of stream_msg steps.
SpecWsSession ==
    Init /\ [][SessionNext]_vars /\ WF_vars(SessionTask) /\ WF_vars(consumer_recv)

\* The task from start() to the wait that follows its first session: the
\* connection is accepted, and the run is followed until step 4 has put the
\* supervisor into its backoff wait (or shutdown has ended it).
FirstSessionNext ==
    \/ start
    \/ shutdown_call
    \/ loop_top_in(SessionBounds)
    \/ connect_ok_in(SessionBounds)
    \/ \E kind \in MessageKinds, dt \in FrameDelays :
          stream_msg_in(kind, dt, SessionBounds)
    \/ stream_err
    \/ stream_end
    \/ heartbeat_check_in(SessionBounds)
    \/ send_resume
    \/ after_session
    \/ consumer_recv
    \/ receiver_drop

SpecWsFirstSession == Init /\ [][FirstSessionNext]_vars

\* A healthy session: it connects at once and a ping arrives every 4 s, so
\* the 5 s timer of handle_stream never fires; the server may end the
\* stream at any moment.
MaxLongTime == 86404000
LongFrameDelays == {4000}

LongBounds ==
    [attempts |-> MaxSessionAttempts, sessions |-> MaxSessions,
     time |-> MaxLongTime, frames |-> 0]

LongNext ==
    \/ start
    \/ loop_top_in(LongBounds)
    \/ connect_ok_in(LongBounds)
    \/ \E dt \in LongFrameDelays : stream_msg_in("Ping", dt, LongBounds)
    \/ stream_end
    \/ after_session
    \/ backoff_wake

SpecWsLong == Init /\ [][LongNext]_vars

ClientsNext ==
    \/ binance_spawn
    \/ binance_connect_ok
    \/ binance_connect_err
    \/ \E sent \in BOOLEAN : binance_subscribe(sent)
    \/ \E symbol \in TrackerSymbols, book \in BookInputs, market_type \in MarketTypes :
          binance_text(symbol, book[1], book[2], market_type)
    \/ binance_pong_err
    \/ \E fault \in ReadFaults : binance_read_fail(fault)
    \/ binance_wake
    \/ bybit_spawn
    \/ bybit_connect_ok
    \/ bybit_connect_err
    \/ \E sent \in BOOLEAN : bybit_subscribe(sent)
    \/ \E symbol \in TrackerSymbols, book \in BookInputs :
          bybit_text(symbol, book[1], book[2])
    \/ \E fault \in BreakFaults : bybit_break(fault)

SpecClients == Init /\ [][ClientsNext]_vars

ApiNext ==
    \/ \E method \in Methods, sent \in BOOLEAN : send_signed_request(method, sent)
    \/ \E msg \in InboundInputs : api_next(msg)

SpecApi == Init /\ [][ApiNext]_vars

ExchangeNext ==
    \/ \E t \in Tasks : place_order_future_call(t)
    \/ \E t \in Tasks, sent \in BOOLEAN : place_order_future_locked(t, sent)
    \/ \E msg \in InboundInputs : place_order_future_next(msg)
    \/ \E t \in Tasks : place_order_future_drop(t)

SpecExchange == Init /\ [][ExchangeNext]_vars

AuthNext ==
    \E api_key \in ApiKeyInputs, api_secret \in SecretInputs, params \in ParamsInputs,
       timestamp \in TimestampInputs :
        sign(api_key, api_secret, params, timestamp)

SpecAuth == Init /\ [][AuthNext]_vars

PricesNext ==
    \/ prices_spawn
    \/ \E ok \in BOOLEAN : prices_connect(ok)
    \/ prices_wake
    \/ \E json \in BOOLEAN, book \in BookInputs : prices_text(json, book[1], book[2])
    \/ prices_send
    \/ \E payload \in PingPayloads : prices_ping(payload)
    \/ prices_frame
    \/ prices_break
    \/ price_recv
    \/ price_rx_drop

SpecPrices == Init /\ [][PricesNext]_vars

LockNext ==
    \/ \E t \in LockTasks : tracker_lock(t)
    \/ \E t \in StreamTasks, symbol \in TrackerSymbols, q \in QuoteInputs :
           \E market_type \in TaskMarketTypes(t) :
               locked_update(t, symbol, q[1], q[2], market_type)
    \/ locked_reset
    \/ \E t \in LockTasks : guard_drop(t)

SpecLock == Init /\ [][LockNext]_vars

EngineNext ==
    \/ \E exchange_list \in ExchangeLists : engine_new(exchange_list)
    \/ \E e \in ExchangeId, q \in EngineQuotes : feed_send(e, q[1], q[2])
    \/ \E e \in ExchangeId : feed_end(e)
    \/ run_recv
    \/ \E side \in {"Buy", "Sell"}, ok \in BOOLEAN : order_done(side, ok)
    \/ sleep_done
    \/ run_recv_none

SpecEngine == Init /\ [][EngineNext]_vars

NotifierNext ==
    \/ sender_clone
    \/ sender_drop
    \/ \E alert \in AlertInputs : tx_try_send(alert)
    \/ rx_recv
    \/ \E outcome \in PostOutcomes : send_message(outcome)
    \/ rx_recv_none

\* The worker is a spawned task of the runtime and is scheduled; a post
\* returns, the client being built with a timeout of 10 s.
SpecNotifier ==
    /\ Init
    /\ [][NotifierNext]_vars
    /\ WF_vars(rx_recv)
    /\ WF_vars(\E outcome \in PostOutcomes : send_message(outcome))
    /\ WF_vars(rx_recv_none)

(***************************************************************************)
(* Claims about the alert gate (checked under SpecGate)                    *)
(***************************************************************************)
\* C1 (P3, gate monotone): for every pair-key, of two alerts accepted for it
\* with no reset between them, the later one carries a value of at least the
\* earlier value plus re_alert_delta.
C1_GateMonotone ==
    \A k \in DOMAIN accepted_since :
        \A i \in 1..Len(accepted_since[k]), j \in 1..Len(accepted_since[k]) :
            i < j => accepted_since[k][j] >= accepted_since[k][i] + RE_ALERT_DELTA

\* A second alert has just been accepted for a key that already had one.
C1_Witness ==
    /\ gate_call.op = "maybe_send"
    /\ gate_call.outcome = "sent"
    /\ gate_call.key \in DOMAIN accepted_since
    /\ Len(accepted_since[gate_call.key]) >= 2

SameUpToCase(s, t) ==
    /\ Len(s) = Len(t)
    /\ \A i \in 1..Len(s) :
          \/ s[i] = t[i]
          \/ s[i] >= 97 /\ s[i] <= 122 /\ t[i] = s[i] - 32
          \/ t[i] >= 97 /\ t[i] <= 122 /\ s[i] = t[i] - 32

C3_Symbols == SymbolInputs \cup {BTC_USDT_BYBIT}

\* The decision and the gate fields maybe_send would leave, from the current state.
GateOutcome(symbol, exchange_a, exchange_b, px, diff_percent) ==
    LET r == MaybeSendResult(last_notified, last_send_time, mailbox, rx_closed, now,
                             symbol, exchange_a, exchange_b, px, diff_percent)
    IN  <<r.outcome, r.last_notified, r.last_send_time>>

\* C3 (P5, pair-key symmetry): from every reachable gate state, maybe_send
\* with venues (A,B) and with venues (B,A) decides alike and leaves the same
\* last_notified and last_send; so do two symbols differing only in case.
C3_PairKeySymmetry ==
    \A s \in C3_Symbols, px \in PxInputs, d \in DiffInputs :
        /\ GateOutcome(s, BINANCE, BYBIT, px, d) = GateOutcome(s, BYBIT, BINANCE, px, d)
        /\ \A s2 \in C3_Symbols \ {s}, a \in ExchangeInputs, b \in ExchangeInputs :
              (a # b /\ SameUpToCase(s, s2)) =>
                  GateOutcome(s, a, b, px, d) = GateOutcome(s2, a, b, px, d)

\* An alert given as (bybit, binance) was accepted, and the same alert given
\* as (binance, bybit) with the symbol in the other case is now held back by
\* the re-alert delta.
C3_Witness ==
    /\ gate_call.op = "maybe_send"
    /\ gate_call.outcome = "sent"
    /\ mailbox # <<>>
    /\ mailbox[Len(mailbox)].exchange_a = BYBIT
    /\ mailbox[Len(mailbox)].exchange_b = BINANCE
    /\ mailbox[Len(mailbox)].symbol = BTC_USDT_BINANCE
    /\ \E px \in PxInputs :
          GateOutcome(BTC_USDT_BYBIT, BINANCE, BYBIT, px, gate_call.diff)[1] = "re_alert"

\* C4 (mailbox full or closed): a maybe_send whose enqueue fails leaves
\* last_notified and last_send as they were, and as long as the gate has not
\* been used since, the same alert is accepted once the mailbox has room.
C4_DropKeepsGate ==
    /\ [][(gate_call'.op = "maybe_send" /\ gate_call'.outcome \in {"full", "closed"})
            => (last_notified' = last_notified /\ last_send_time' = last_send_time)]_vars
    /\ [](  (/\ gate_call.op = "maybe_send"
             /\ gate_call.outcome = "full"
             /\ ~rx_closed
             /\ Len(mailbox) < MailboxCapacity)
          => \E s \in SymbolInputs, a \in ExchangeInputs, b \in ExchangeInputs,
                px \in PxInputs :
                /\ pair_key(s, a, b) = gate_call.key
                /\ GateOutcome(s, a, b, px, gate_call.diff)[1] = "sent")

\* An alert passed the three guards and was dropped on a full mailbox, for a
\* key that had been notified before.
C4_Witness ==
    /\ gate_call.op = "maybe_send"
    /\ gate_call.outcome = "full"
    /\ gate_call.key \in DOMAIN last_notified

(***************************************************************************)
(* Claims about the tracker and the comparator (checked under SpecTracker) *)
(***************************************************************************)
\* C5 (P1, snapshot validity): every snapshot stored in the tracker's data
\* has bid > 0 and ask > 0.
C5_SnapshotValidity ==
    \A s \in DOMAIN data : \A i \in 1..Len(data[s]) :
        data[s][i].bid > 0 /\ data[s][i].ask > 0

\* C6 (P2, comparator threshold): every triple returned by compare carries a
\* diff of at least the threshold.
C6_ComparatorThreshold ==
    \A i \in 1..Len(results) : results[i][3] >= threshold

\* compare has returned a triple on a call that started from a raised watermark.
C6_Witness ==
    /\ tracker_call.op = "update"
    /\ tracker_call.big > 0
    /\ Len(results) > 0

\* The pairs of distinct venues whose diff reaches the threshold, in the
\* order the comparator enumerates them.
RECURSIVE QualifyingFrom(_, _, _)
QualifyingFrom(snapshots, pairs, k) ==
    IF k > Len(pairs) THEN <<>>
    ELSE LET a == snapshots[pairs[k][1]]
             b == snapshots[pairs[k][2]]
         IN  (IF a.exchange # b.exchange /\ Diff(a, b) >= threshold
              THEN <<<<a, b, Diff(a, b)>>>> ELSE <<>>)
             \o QualifyingFrom(snapshots, pairs, k + 1)

Qualifying(snapshots) ==
    QualifyingFrom(snapshots, PairsFrom(1, 2, Len(snapshots)), 1)

\* C7 (watermark is telemetry): compare returns exactly the pairs of distinct
\* venues whose diff is at least the threshold, in enumeration order, whatever
\* was emitted before.
C7_WatermarkDoesNotSuppress ==
    tracker_call.op = "update" => results = Qualifying(data[tracker_call.symbol])

\* C8 (one snapshot per venue): the table of each instrument holds exactly one
\* snapshot for each venue that has reported, that venue's latest update, and
\* none for the others.
C8_LatestPerVenue ==
    \A s \in DOMAIN data : \A e \in ExchangeInputs :
        LET idx == {i \in 1..Len(data[s]) : data[s][i].exchange = e}
        IN  IF <<s, e>> \in DOMAIN reported
            THEN /\ Cardinality(idx) = 1
                 /\ \A i \in idx : <<data[s][i].bid, data[s][i].ask>> = reported[<<s, e>>]
            ELSE idx = {}

(***************************************************************************)
(* Claims about the session supervisor (checked under SpecWs)              *)
(*                                                                         *)
(* The clock stands still while the task sleeps and jumps at the wake-up,  *)
(* so in a sleeping state ws_now is the instant the wait began.            *)
(***************************************************************************)
\* C9 as stated (reconnect backoff): while the supervisor waits after N >= 1
\* consecutive failed connection attempts, the wait is
\* min(base * 2^N, max_backoff) + jitter with jitter in [0, 500).
C9_BackoffTwoToTheN ==
    (ws_pc = "backoff_sleep" /\ failures >= 1) =>
        /\ jitter \in 0..499
        /\ sleep_duration =
               Min(BASE_BACKOFF_MS * 2^failures, MAX_BACKOFF_MS) + jitter

\* C9 as amended (reconnect backoff): while the supervisor waits after N >= 1
\* consecutive failed connection attempts, the wait is
\* min(base * 2^(N-1), max_backoff) + jitter if no connection has succeeded
\* since the supervisor started, and min(base * 2^N, max_backoff) + jitter if
\* one has, with jitter in [0, 500).
C9_BackoffFromBase ==
    (ws_pc = "backoff_sleep" /\ failures >= 1) =>
        LET n == IF sessions > 0 THEN failures ELSE failures - 1
        IN  /\ jitter \in 0..499
            /\ sleep_duration = Min(BASE_BACKOFF_MS * 2^n, MAX_BACKOFF_MS) + jitter

\* The seventh failure in a row since the start waits the capped backoff
\* plus the largest jitter.
C9_Witness ==
    /\ ws_pc = "backoff_sleep"
    /\ sessions = 0
    /\ failures = 7
    /\ sleep_duration = MAX_BACKOFF_MS + 499

\* C10 (circuit breaker): once MAX_DISCONNECTIONS_LIMIT or more disconnections
\* have been recorded within the last 300 s, the wait that follows is not a
\* backoff wait, and the next connection attempt starts right after a wait of
\* exactly 300 s with the ring cleared.
C10_BreakerIsTheNextWait ==
    /\ ws_pc = "backoff_sleep" =>
           Len(disconnection_timestamps) < MAX_DISCONNECTIONS_LIMIT
    /\ (ws_pc = "connecting" /\ Len(checked.ring) >= MAX_DISCONNECTIONS_LIMIT) =>
           /\ last_wait = [kind |-> "breaker", ms |-> MAX_DISCONNECTIONS_WINDOW]
           /\ disconnection_timestamps = <<>>

(***************************************************************************)
(* Claims about rotation and the session state (checked under SpecWsLong)  *)
(***************************************************************************)
\* C11 (rotation): a healthy session is closed for a rotation when its 23 h
\* deadline passes, so no session is still connected and reading 24 h after
\* it connected.
C11_HealthySessionRotates ==
    (state = "Connected" /\ ws_pc = "stream") =>
        ws_now - connected_at < 24 * 3600 * 1000

ConnectionStates ==
    {"Disconnected", "Connecting", "Connected", "Reconnecting", "Rotating"}

\* The transitions of the specified table.
StateTable ==
    {<<"Disconnected", "Connecting">>, <<"Connecting", "Connected">>,
     <<"Connecting", "Reconnecting">>, <<"Connected", "Reconnecting">>,
     <<"Connected", "Rotating">>, <<"Rotating", "Reconnecting">>,
     <<"Reconnecting", "Connecting">>}
    \cup {<<s, "Disconnected">> : s \in ConnectionStates}

\* C12 (state table): the state starts at Disconnected, every change of it
\* is a transition of the table, and a change to Disconnected happens only
\* once shutdown is requested.
C12_StateTable ==
    /\ ws_pc = "idle" => state = "Disconnected"
    /\ state_log \subseteq StateTable
    /\ (\E s \in ConnectionStates : <<s, "Disconnected">> \in state_log) => shutdown

(***************************************************************************)
(* Claims about one session (SpecWsSession, SpecWsFirstSession)           *)
(***************************************************************************)
\* C13 (shutdown is observed): once shutdown() has been called, the task
\* eventually stops reading and from then on the state is Disconnected and
\* the task is not running, also while frames keep arriving.
C13_ShutdownObserved ==
    shutdown ~> [](state = "Disconnected" /\ ws_pc \in {"idle", "done"})

C16_OnlyFramesDownstream ==
    \A i \in 1..Len(delivered) : delivered[i].ok

\* C17 (arrival order): the frames of one session reach the consumer in the
\* order they were read, each at most once.
C17_ArrivalOrder ==
    \A i \in 1..Len(delivered), j \in 1..Len(delivered) :
        (i < j /\ delivered[i].ok /\ delivered[j].ok
               /\ delivered[i].session = delivered[j].session) =>
            delivered[i].id < delivered[j].id

\* Three frames of one session have been received; the third had to wait
\* for room in the channel.
C17_Witness ==
    /\ Len(delivered) = 3
    /\ \A i \in 1..3 : delivered[i] = [ok |-> TRUE, id |-> i, session |-> 1]
    /\ ws_now >= connected_at + 61000

(***************************************************************************)
(* Claims about the stream tasks (checked under SpecClients)               *)
(***************************************************************************)
\* C15 (faults are recovered locally): no stream task has aborted or
\* ended; a task that has met a fault is waiting to connect again,
\* connecting, or connected.
C15_ClientsKeepTrying ==
    /\ binance_pc # "panicked"
    /\ bybit_pc \notin {"panicked", "returned"}

(***************************************************************************)
(* Claims about send_signed_request (checked under SpecApi)                *)
(***************************************************************************)
\* C18 (response correlation): a call that returned Ok returned the text
\* frame it read last, and the id of that frame is the string the call
\* sent as its request id.
C18_ResponseCorrelation ==
    (api_result # <<>> /\ api_result[1].ok) =>
        /\ api_pc = "returned"
        /\ api_inbound # <<>>
        /\ api_result[1].reply = <<api_inbound[Len(api_inbound)]>>
        /\ api_result[1].reply[1].kind = "Text"
        /\ api_result[1].reply[1].id = StringId(request_id)

\* The second call returned Ok after it had read the reply to the first
\* call and a frame whose id is the number 1.
C18_Witness ==
    /\ api_result # <<>> /\ api_result[1].ok
    /\ request_id = 2
    /\ api_inbound = <<Inbound("Text", TRUE, StringId(1), TRUE),
                       Inbound("Text", TRUE, NumberId(1), FALSE),
                       Inbound("Text", TRUE, StringId(2), TRUE)>>

\* C19 (other frames are skipped): a call that has returned after reading
\* the socket read last either a text frame carrying its request id or a
\* close, an error or the end of the stream.
C19_OnlyReplyOrCloseEnds ==
    (api_pc = "returned" /\ api_inbound # <<>>) =>
        LET last == api_inbound[Len(api_inbound)]
        IN  \/ last.kind = "Text" /\ last.json /\ last.id = StringId(request_id)
            \/ last.kind \in {"Close", "Err", "None"}

\* C20 (close while waiting): a call that is waiting has read no close, no
\* error and no end of stream, and a call that read one of them has
\* returned the 'connection closed unexpectedly' error.
C20_ClosedWhileWaiting ==
    /\ api_pc = "waiting" =>
          \A i \in 1..Len(api_inbound) : api_inbound[i].kind \notin {"Close", "Err", "None"}
    /\ \A i \in 1..Len(api_inbound) :
          api_inbound[i].kind \in {"Close", "Err", "None"} =>
              /\ i = Len(api_inbound)
              /\ api_pc = "returned"
              /\ api_result = <<Err(ERR_CLOSED)>>

\* A call skipped an unsolicited text frame and a Ping, then read a Close
\* frame, and has failed.
C20_Witness ==
    /\ api_pc = "returned"
    /\ api_result = <<Err(ERR_CLOSED)>>
    /\ api_inbound = <<Inbound("Text", TRUE, NoId, FALSE),
                       Inbound("Ping", FALSE, NoId, FALSE),
                       Inbound("Close", FALSE, NoId, FALSE)>>

\* C21 (a missing result is an error): an operation whose request got its
\* reply has returned Ok with the reply's result when the reply has one,
\* and otherwise its own error carrying the reply's error field, whatever
\* the status; an operation whose request failed has returned that failure.
C21_MissingResultIsError ==
    api_pc = "returned" =>
        /\ op_result # <<>>
        /\ IF api_result[1].ok
           THEN LET body == api_result[1].reply[1].body
                IN  IF body.result # <<>>
                    THEN op_result[1] = OpOk(body.result[1])
                    ELSE op_result[1] = OpErr(OperationError(api_method), body.error)
           ELSE ~op_result[1].ok

\* order.cancel got a reply of status 200 with neither result nor error and
\* has failed; before that the client skipped a reply of status 400.
C21_Witness ==
    /\ api_pc = "returned"
    /\ api_method = "order.cancel"
    /\ request_id = 2
    /\ api_inbound = <<Reply(StringId(1), Body(400, <<OrderResult>>, <<>>)),
                       Reply(StringId(2), NoBody)>>
    /\ op_result = <<OpErr("Order Cancellation Error", <<>>)>>

(***************************************************************************)
(* Claims about place_order_future (checked under SpecExchange)            *)
(***************************************************************************)
\* C22 (one outstanding request): every reply the venue has sent was read
\* by the call that sent the request it answers.
C22_RepliesReadBySender ==
    \A r \in reads : r[1] = r[2]

(***************************************************************************)
(* Claims about request signing (checked under SpecAuth)                   *)
(***************************************************************************)
\* The position of the first sep in s, or 0.
FirstOf(s, sep) ==
    IF \E i \in 1..Len(s) : s[i] = sep
    THEN CHOOSE i \in 1..Len(s) : s[i] = sep /\ \A j \in 1..(i - 1) : s[j] # sep
    ELSE 0

\* s cut at every sep.
RECURSIVE Split(_, _)
Split(s, sep) ==
    IF FirstOf(s, sep) = 0 THEN <<s>>
    ELSE <<SubSeq(s, 1, FirstOf(s, sep) - 1)>>
         \o Split(SubSeq(s, FirstOf(s, sep) + 1, Len(s)), sep)

\* C23 (signing determinism): the query string of a call, cut at '&' and
\* each piece at its first '=', lists the keys of the returned map other
\* than signature, each once, in strictly ascending order, each with its
\* value; the signature is the HMAC of exactly that string under the
\* secret; and two calls with the same key, secret, params and timestamp
\* returned the same query string and the same map.
C23_SigningDeterminism ==
    /\ \A r \in signings :
          LET pieces == Split(r.out.query, 38)
              key(i) == SubSeq(pieces[i], 1, FirstOf(pieces[i], 61) - 1)
              value(i) == SubSeq(pieces[i], FirstOf(pieces[i], 61) + 1, Len(pieces[i]))
          IN  /\ \A i \in 1..Len(pieces) : FirstOf(pieces[i], 61) > 0
              /\ {key(i) : i \in 1..Len(pieces)} = DOMAIN r.out.params \ {KEY_SIGNATURE}
              /\ \A i \in 1..Len(pieces) : value(i) = r.out.params[key(i)]
              /\ \A i \in 1..(Len(pieces) - 1) :
                    StrLe(key(i), key(i + 1)) /\ key(i) # key(i + 1)
              /\ r.out.params[KEY_SIGNATURE] = sign_payload(r.api_secret, r.out.query)
              /\ r.out.params[KEY_API_KEY] = r.api_key
              /\ r.out.params[KEY_TIMESTAMP] = to_string(r.timestamp)
    /\ \A r1 \in signings, r2 \in signings :
          (r1.api_key = r2.api_key /\ r1.api_secret = r2.api_secret
              /\ r1.params = r2.params /\ r1.timestamp = r2.timestamp) => r1.out = r2.out

\* A limit order was signed at 999 ms and at 1000 ms and a cancel request
\* at 1000 ms: three different query strings.
C23_Witness ==
    /\ Cardinality(signings) = 3
    /\ Cardinality({r.out.query : r \in signings}) = 3
    /\ \E r \in signings : r.timestamp = 999 /\ Len(Split(r.out.query, 38)) = 10
    /\ \E r \in signings : r.timestamp = 1000 /\ Len(Split(r.out.query, 38)) = 5

(***************************************************************************)
(* Claims about the frames of the stream tasks (checked under SpecClients) *)
(***************************************************************************)
\* C24 (frame discard rule): a depth frame whose best bid or best ask
\* parses to 0 causes no MarketTracker::update call, so the last update
\* the tracker has taken carries a bid and an ask other than 0.
C24_ZeroPriceDiscarded ==
    tracker_call.op = "update" => tracker_call.bid # 0 /\ tracker_call.ask # 0

(***************************************************************************)
(* Claims about AlertGate::reset and the channel (checked under SpecGate)  *)
(***************************************************************************)
\* C25 (reset wipes the gate): when reset has returned, last_notified is
\* empty and last_send_time is None; and the maybe_send that follows a
\* reset with diff_percent >= min_diff, while the channel is open and not
\* full, is accepted: the alert is enqueued and recorded under its key.
C25_ResetWipesGate ==
    [][/\ gate_call'.op = "reset" =>
              last_notified' = <<>> /\ last_send_time' = <<>>
       /\ (/\ gate_call.op = "reset"
           /\ gate_call'.op = "maybe_send"
           /\ gate_call'.diff >= DIFF_THRESHOLD
           /\ try_send(mailbox, rx_closed) = "sent") =>
              /\ gate_call'.outcome = "sent"
              /\ Len(mailbox') = Len(mailbox) + 1
              /\ mailbox'[Len(mailbox')].diff_percent = gate_call'.diff
              /\ last_notified' = [k \in {gate_call'.key} |-> gate_call'.diff]
              /\ last_send_time' = <<now>>]_vars

\* An alert was accepted at 0, the gate was reset, and an alert was
\* accepted at 60, inside the cooldown of the first.
C25_Witness ==
    /\ gate_call.op = "maybe_send"
    /\ gate_call.outcome = "sent"
    /\ sent_since = <<60>>
    /\ sent_all = {0, 60}

\* C26 (bounded mailbox, no blocking): the channel never holds more alerts
\* than its capacity, and in every state of the gate and the channel a call
\* of maybe_send returns with one of its six outcomes; on a full channel it
\* returns without enqueuing.
C26_MailboxBounded ==
    /\ Len(mailbox) <= MailboxCapacity
    /\ \A symbol \in SymbolInputs, a \in ExchangeInputs, b \in ExchangeInputs,
          px \in PxInputs, d \in DiffInputs :
          LET r == MaybeSendResult(last_notified, last_send_time, mailbox, rx_closed,
                                   now, symbol, a, b, px, d)
          IN  /\ r.outcome \in {"min_diff", "re_alert", "cooldown", "sent", "full", "closed"}
              /\ Len(mailbox) = MailboxCapacity =>
                     r.outcome # "sent" /\ r.mailbox = mailbox

\* maybe_send has returned from a call that found the channel full.
C26_Witness ==
    /\ Len(mailbox) = MailboxCapacity
    /\ gate_call.op = "maybe_send"
    /\ gate_call.outcome = "full"

(***************************************************************************)
(* Claims about the notification worker (checked under SpecNotifier)       *)
(***************************************************************************)
\* The alerts of the posts attempted, in order.
PostedAlerts == [i \in 1..Len(posts) |-> posts[i].alert]

\* C27 (the worker drains the channel): the alerts posted, the alert in
\* hand and the alerts still queued are, in this order, the alerts that
\* were enqueued, so each is posted once, in FIFO order, whatever the
\* outcome of its post; a post that failed leaves the worker running: it
\* has stopped only with no Sender left and the channel empty; and once no
\* Sender is left the worker stops.
C27_WorkerDrains ==
    /\ [](PostedAlerts \o in_post \o mailbox = enqueued)
    /\ [](worker_pc = "stopped" => senders = 0 /\ mailbox = <<>> /\ in_post = <<>>)
    /\ [](in_post = <<>> <=> worker_pc # "post")
    /\ (senders = 0) ~> (worker_pc = "stopped")

\* Two different alerts were enqueued; the post of the first failed, the
\* post of the second succeeded, and the worker has stopped.
C27_Witness ==
    /\ worker_pc = "stopped"
    /\ Len(enqueued) = 2
    /\ enqueued[1] # enqueued[2]
    /\ PostedAlerts = enqueued
    /\ posts[1].outcome = "network_error"
    /\ posts[2].outcome = "success"

C29_StartBlocksUntilShutdown ==
    ws_pc # "idle" => shutdown /\ ws_pc = "done"

\* C29 (the loop ends only on shutdown): the task start() has spawned has
\* left connection_loop only if the shutdown flag is set, and then the
\* state is Disconnected; with the flag clear it has not ended, also when
\* the receiver of the channel has been dropped.
C29_LoopEndsOnlyOnShutdown ==
    /\ ws_pc = "done" => shutdown /\ state = "Disconnected"
    /\ (receiver_dropped /\ ~shutdown) => ws_pc # "done"

\* The receiver was dropped, the session that had read a frame has ended,
\* and with the flag clear the loop is in its backoff wait.
C29_Witness ==
    /\ receiver_dropped
    /\ ~shutdown
    /\ frames >= 1
    /\ ws_pc = "backoff_sleep"
    /\ state = "Reconnecting"

(***************************************************************************)
(* Claims about the path from the tracker to the gate (SpecTracker)        *)
(***************************************************************************)
\* C30 (candidates reach the gate): when MarketTracker::update has returned
\* and the comparator gave it at least one candidate, AlertGate::maybe_send
\* has been called and, the gate being fresh and the channel empty before,
\* an alert is queued.
C30_CandidatesReachGate ==
    (tracker_call.op = "update" /\ results # <<>>) =>
        gate_call.op = "maybe_send" /\ mailbox # <<>>

(***************************************************************************)
(* Claims about the guards of maybe_send (checked under SpecGate)          *)
(***************************************************************************)
\* C31 (a rejected call changes nothing): in every state of the gate, a
\* call of maybe_send returns at the first of the three guards that rejects
\* it, taken in the order minimum diff, re-alert delta, cooldown, and then
\* the channel, last_notified and last_send_time are as before; and a step
\* in which maybe_send has returned from a guard leaves the three unchanged.
C31_RejectedCallChangesNothing ==
    /\ [](\A symbol \in SymbolInputs, a \in ExchangeInputs, b \in ExchangeInputs,
             px \in PxInputs, d \in DiffInputs :
             LET r == MaybeSendResult(last_notified, last_send_time, mailbox, rx_closed,
                                      now, symbol, a, b, px, d)
                 g1 == d < DIFF_THRESHOLD
                 g2 == r.key \in DOMAIN last_notified
                          /\ d < last_notified[r.key] + RE_ALERT_DELTA
                 g3 == last_send_time # <<>>
                          /\ now - last_send_time[1] < COOLDOWN_SECS
             IN  /\ (r.outcome = "min_diff") <=> g1
                 /\ (r.outcome = "re_alert") <=> (~g1 /\ g2)
                 /\ (r.outcome = "cooldown") <=> (~g1 /\ ~g2 /\ g3)
                 /\ (g1 \/ g2 \/ g3) =>
                        /\ r.mailbox = mailbox
                        /\ r.last_notified = last_notified
                        /\ r.last_send_time = last_send_time)
    /\ [][(/\ gate_call' # gate_call
           /\ gate_call'.op = "maybe_send"
           /\ gate_call'.outcome \in {"min_diff", "re_alert", "cooldown"}) =>
              UNCHANGED <<mailbox, last_notified, last_send_time>>]_vars

\* maybe_send has returned from guard 2 in a state where guard 3 rejects
\* too: an alert is queued, the key is recorded and the cooldown runs.
C31_Witness ==
    /\ gate_call.op = "maybe_send"
    /\ gate_call.outcome = "re_alert"
    /\ gate_call.key \in DOMAIN last_notified
    /\ last_send_time # <<>>
    /\ now - last_send_time[1] < COOLDOWN_SECS
    /\ mailbox # <<>>

\* C32 (re-alert after delta): in every state in which an alert for a key
\* has been accepted with value v, a call of maybe_send for that key with
\* diff_percent >= v + re_alert_delta is accepted when the cooldown since
\* the last accepted alert has elapsed and the channel is open and not full
\* (the alert is queued and v becomes diff_percent), and returns from the
\* cooldown guard, changing nothing, when it has not.
C32_ReAlertAfterDelta ==
    \A symbol \in SymbolInputs, a \in ExchangeInputs, b \in ExchangeInputs,
       px \in PxInputs, d \in DiffInputs :
       LET r == MaybeSendResult(last_notified, last_send_time, mailbox, rx_closed,
                                now, symbol, a, b, px, d)
       IN  (/\ r.key \in DOMAIN last_notified
            /\ d >= last_notified[r.key] + RE_ALERT_DELTA
            /\ last_send_time # <<>>) =>
               IF now - last_send_time[1] >= COOLDOWN_SECS
               THEN (~rx_closed /\ Len(mailbox) < MailboxCapacity) =>
                        /\ r.outcome = "sent"
                        /\ r.mailbox = Append(mailbox, AppAlert(symbol, a, b, px, d))
                        /\ r.last_notified[r.key] = d
                        /\ r.last_send_time = <<now>>
               ELSE /\ r.outcome = "cooldown"
                    /\ r.mailbox = mailbox
                    /\ r.last_notified = last_notified

\* An alert was accepted at 0 with 5 %, and the call for the same key with
\* 6 % at 120 has been accepted.
C32_Witness ==
    /\ gate_call.op = "maybe_send"
    /\ gate_call.outcome = "sent"
    /\ gate_call.diff = 6
    /\ sent_since = <<0, 120>>
    /\ gate_call.key \in DOMAIN accepted_since
    /\ accepted_since[gate_call.key] = <<5, 6>>

(***************************************************************************)
(* Claims about the backoff and the ring (checked under SpecWs)            *)
(***************************************************************************)
\* C33 (backoff reset on connect): the wait that follows the end of a
\* session that had connected is base + jitter, with jitter in [0, 500),
\* however many attempts failed before that connect; and once the task
\* runs, the backoff is within [base, max_backoff].
C33_BackoffResetOnConnect ==
    /\ (ws_pc = "backoff_sleep" /\ sessions >= 1 /\ failures = 0) =>
           /\ jitter \in 0..499
           /\ sleep_duration = BASE_BACKOFF_MS + jitter
           /\ last_wait = [kind |-> "backoff", ms |-> BASE_BACKOFF_MS + jitter]
    /\ ws_pc # "idle" => backoff_ms >= BASE_BACKOFF_MS /\ backoff_ms <= MAX_BACKOFF_MS

\* Two attempts failed, the third connected, and the session has ended: the
\* wait is the base plus the largest jitter.
C33_Witness ==
    /\ ws_pc = "backoff_sleep"
    /\ sessions = 1
    /\ failures = 0
    /\ attempts = 3
    /\ sleep_duration = BASE_BACKOFF_MS + 499

(***************************************************************************)
(* Claims about the comparator's pairs (checked under SpecTracker)         *)
(***************************************************************************)
\* C34 (diff of a pair): every triple compare has returned holds snapshots
\* of two different venues, and its diff is |mid_A - mid_B| / mid_A, A
\* being the earlier entry, on the grid the code rounds to.
C34_DiffFromMids ==
    \A i \in 1..Len(results) :
        LET a == results[i][1]
            b == results[i][2]
        IN  /\ a.exchange # b.exchange
            /\ a.mid # 0 => results[i][3] = RoundDiv(Abs(a.mid - b.mid) * DiffScale, a.mid)

(***************************************************************************)
(* Claims about the tracker's Mutex (checked under SpecLock)               *)
(***************************************************************************)
\* C35 (no I/O under the Mutex): no line is written to the CSV file while
\* a task holds the tracker's Mutex.
C35_NoIoUnderMutex ==
    \A i \in 1..Len(io_log) : io_log[i] = <<>>

(***************************************************************************)
(* Claims about binary frames (checked under SpecWsFirstSession)           *)
(***************************************************************************)
\* C36 (binary frames are ignored): no item on the channel to the consumer
\* is a binary frame.
C36_BinaryNotDelivered ==
    \A i \in 1..Len(sender_queue) : sender_queue[i].msg # "Binary"

(***************************************************************************)
(* Claims about the fields of the gate (checked under SpecGate)            *)
(***************************************************************************)
\* C37 (gate state consistency): last_send_time is set exactly when
\* last_notified has an entry; the keys of last_notified are the keys that
\* had an alert accepted since the last reset, and the value stored for a
\* key is at least min_diff and is the diff of the latest of them.
C37_GateStateConsistent ==
    /\ last_send_time # <<>> <=> DOMAIN last_notified # {}
    /\ DOMAIN last_notified = DOMAIN accepted_since
    /\ \A k \in DOMAIN last_notified :
          /\ last_notified[k] >= DIFF_THRESHOLD
          /\ accepted_since[k] # <<>>
          /\ last_notified[k] = accepted_since[k][Len(accepted_since[k])]

\* Two keys have an entry, the second accepted a cooldown after the first;
\* the channel has been drained in between.
C37_Witness ==
    /\ Cardinality(DOMAIN last_notified) = 2
    /\ last_send_time = <<COOLDOWN_SECS>>
    /\ \E k \in DOMAIN last_notified : last_notified[k] = DIFF_THRESHOLD + 1
    /\ mailbox = <<>>

(***************************************************************************)
(* Claims about the disconnection ring (checked under SpecWs)              *)
(***************************************************************************)
\* C38 (ring bound): when a connection attempt starts the ring holds at
\* most MAX_DISCONNECTIONS_LIMIT instants; right after a disconnection is
\* recorded and right after the breaker is checked, every instant it holds
\* is younger than MAX_DISCONNECTIONS_WINDOW; and the attempt that follows
\* a breaker pause starts with the ring empty.
C38_RingBound ==
    /\ ws_pc = "connecting" =>
          Len(disconnection_timestamps) <= MAX_DISCONNECTIONS_LIMIT
    /\ ws_pc \in {"backoff_sleep", "connecting", "breaker_sleep"} =>
          \A i \in 1..Len(disconnection_timestamps) :
              ws_now - disconnection_timestamps[i] < MAX_DISCONNECTIONS_WINDOW
    /\ (ws_pc = "connecting" /\ last_wait.kind = "breaker") =>
          disconnection_timestamps = <<>>

\* The breaker has paused the loop and the next attempt starts on an empty
\* ring.
C38_Witness ==
    /\ ws_pc = "connecting"
    /\ last_wait.kind = "breaker"
    /\ disconnection_timestamps = <<>>
    /\ checked.at + MAX_DISCONNECTIONS_WINDOW = ws_now
    /\ Len(checked.ring) >= MAX_DISCONNECTIONS_LIMIT

(***************************************************************************)
(* Claims about the arbitrage engine (checked under SpecEngine)            *)
(***************************************************************************)
\* C39 (re-entrancy guard): is_executing is false whenever run() is at
\* price_rx.recv(); execute_trade called with an exchange that is not in
\* the map returns with is_executing false; and the futures in flight are
\* none outside try_join!, and inside it at most one buy and one sell, of
\* the latest trade.
C39_ReentrancyGuard ==
    /\ engine_pc \in {"recv", "done"} => ~is_executing
    /\ \A exs \in SUBSET ExchangeId, buy \in ExchangeId, sell \in ExchangeId :
          (buy \notin exs \/ sell \notin exs) =>
              LET r == execute_trade(exs, Trade(buy, sell, 101, 110))
              IN  ~r.is_executing /\ r.engine_pc = "recv" /\ r.in_flight = {}
    /\ engine_pc # "try_join" => in_flight = {}
    /\ in_flight # {} => is_executing
    /\ \A l1 \in in_flight, l2 \in in_flight : l1.side = l2.side => l1 = l2
    /\ \A l \in in_flight :
          LET t == trades[Len(trades)].trade
          IN  l \in {Leg("Buy", t.buy, t.buy_price), Leg("Sell", t.sell, t.sell_price)}

\* A trade failed on one order, the engine slept and unlocked, and run()
\* has since taken a further price.
C39_Witness ==
    /\ engine_pc = "recv"
    /\ ~is_executing
    /\ trades # <<>>
    /\ trades[Len(trades)].outcome = "failed"
    /\ Len(taken) > trades[Len(trades)].update

\* The latest PriceData of exchange e among the first n taken: <<>> when
\* there is none.
RECURSIVE LatestTaken(_, _)
LatestTaken(e, n) ==
    IF n = 0 THEN <<>>
    ELSE IF taken[n].exchange = e THEN <<taken[n]>>
    ELSE LatestTaken(e, n - 1)

\* C40 (trade selection): no two trades come from one price update; the
\* two legs of a trade are on different exchanges, one of them the exchange
\* of the update; market_state has an entry exactly for the exchanges that
\* have sent a price, and it is the latest price taken from each.
C40_TradeSelection ==
    /\ \A i \in 1..Len(trades), j \in 1..Len(trades) :
          i < j => trades[i].update < trades[j].update
    /\ \A i \in 1..Len(trades) :
          LET t == trades[i].trade
              updated == taken[trades[i].update].exchange
          IN  /\ t.buy # t.sell
              /\ updated \in {t.buy, t.sell}
    /\ DOMAIN market_state \subseteq ExchangeId
    /\ \A e \in ExchangeId :
          IF e \in DOMAIN market_state
          THEN LatestTaken(e, Len(taken)) = <<market_state[e]>>
          ELSE LatestTaken(e, Len(taken)) = <<>>

\* A trade that buys on the other exchange and sells on the one that just
\* updated, decided on a price that replaced an earlier one of that exchange.
C40_Witness ==
    /\ trades # <<>>
    /\ LET last == trades[Len(trades)]
           updated == taken[last.update].exchange
       IN  /\ last.trade.sell = updated
           /\ last.trade.buy # updated
           /\ \E n \in 1..(last.update - 1) :
                 taken[n].exchange = updated /\ taken[n] # taken[last.update]

====
